---- MODULE Spec2Model ----
(***************************************************************************)
(* Model of the Spacekeys keymap core: the key-code grammar, the KeyPress  *)
(* value, the keymap tree, the YAML/Markdown keymap parser and the         *)
(* plugin's keymap loading.                                                *)
(*                                                                         *)
(* Strings are sequences of one-character strings, so that the string      *)
(* operations of the code (indexOf, substring, toLowerCase, trim, regular  *)
(* expression tests) are computed and not assumed.                         *)
(***************************************************************************)
EXTENDS Integers, Sequences, FiniteSets, TLC

VARIABLES
    kpc,        \* key-code machine: position ("idle", "haveKey", "haveCode", "parsed")
    origin,     \* key-code machine: where the current KeyPress / code came from
    kp,         \* key-code machine: the current KeyPress (or NoKey)
    code,       \* key-code machine: the current key code string
    res,        \* key-code machine: the last result of parseKey (or NoResult)
    heap,       \* the objects allocated so far (KeymapGroup, KeymapCommand, KeymapFile), by id
    phase,      \* keymap machines: which calls have been made
    base,       \* parser machine: the group parsed first and the data it was parsed from
    last,       \* keymap machines: the last call, its arguments, the heap before it, its result
    lines,      \* file machines: the text of the keymap file being written
    plugin      \* plugin machine: settings, vault, active keymap and the loads in flight

keyVars == <<kpc, origin, kp, code, res>>

treeVars == <<heap, phase, base, last>>

fileVars == <<lines, plugin>>

vars == <<keyVars, treeVars, fileVars>>

-----------------------------------------------------------------------------
(* Strings                                                                 *)

LowerLetters ==
    {"a","b","c","d","e","f","g","h","i","j","k","l","m",
     "n","o","p","q","r","s","t","u","v","w","x","y","z"}

UpperLetters ==
    {"A","B","C","D","E","F","G","H","I","J","K","L","M",
     "N","O","P","Q","R","S","T","U","V","W","X","Y","Z"}

UpperToLower ==
    [c \in UpperLetters |->
        CASE c = "A" -> "a" [] c = "B" -> "b" [] c = "C" -> "c" [] c = "D" -> "d"
          [] c = "E" -> "e" [] c = "F" -> "f" [] c = "G" -> "g" [] c = "H" -> "h"
          [] c = "I" -> "i" [] c = "J" -> "j" [] c = "K" -> "k" [] c = "L" -> "l"
          [] c = "M" -> "m" [] c = "N" -> "n" [] c = "O" -> "o" [] c = "P" -> "p"
          [] c = "Q" -> "q" [] c = "R" -> "r" [] c = "S" -> "s" [] c = "T" -> "t"
          [] c = "U" -> "u" [] c = "V" -> "v" [] c = "W" -> "w" [] c = "X" -> "x"
          [] c = "Y" -> "y" [] c = "Z" -> "z"]

\* String.prototype.toLowerCase, one character
LowerChar(c) == IF c \in UpperLetters THEN UpperToLower[c] ELSE c

\* String.prototype.toLowerCase
ToLowerCase(s) == [i \in 1..Len(s) |-> LowerChar(s[i])]

\* Mutant: the separator is the last '-' of the code
LastIndexOf(s, c) ==
    IF \E i \in 1..Len(s) : s[i] = c
    THEN (CHOOSE i \in 1..Len(s) : s[i] = c /\ \A j \in (i+1)..Len(s) : s[j] # c) - 1
    ELSE -1

\* String.prototype.indexOf for a one-character needle; 0-based, -1 when absent
IndexOf(s, c) ==
    IF \E i \in 1..Len(s) : s[i] = c
    THEN (CHOOSE i \in 1..Len(s) : s[i] = c /\ \A j \in 1..(i-1) : s[j] # c) - 1
    ELSE -1

\* String.prototype.substring(from, to), 0-based, `to` exclusive
Substring(s, from, to) == SubSeq(s, from + 1, to)

\* String.prototype.substring(from)
SubstringFrom(s, from) == SubSeq(s, from + 1, Len(s))

\* Characters the regular expression `.` does not match
LineTerminators == {"\n", "\r"}

Digits == {"0","1","2","3","4","5","6","7","8","9"}

-----------------------------------------------------------------------------
(* Key codes and KeyPress                                                  *)

\* Mutant: a grammar test that accepts every key that is not empty
KeycodeAnything(key) == Len(key) >= 1

\* /^(.|[a-z]+|f[1-9]|f1[0-2])$/i
KEYCODE_REGEXP(key) ==
    \/ Len(key) = 1 /\ key[1] \notin LineTerminators
    \/ Len(key) >= 1 /\ \A i \in 1..Len(key) : key[i] \in LowerLetters \cup UpperLetters
    \/ Len(key) = 2 /\ key[1] \in {"f", "F"} /\ key[2] \in Digits \ {"0"}
    \/ Len(key) = 3 /\ key[1] \in {"f", "F"} /\ key[2] = "1" /\ key[3] \in {"0","1","2"}

\* Mutant: shift is never ignored
ShouldIgnoreShiftNever(key) == FALSE

shouldIgnoreShift(key) == Len(key) = 1 /\ key # <<" ">>

\* Partial<KeyModifiers> with nothing set
NoMods == [ctrl |-> FALSE, shift |-> FALSE, alt |-> FALSE, meta |-> FALSE]

\* new KeyPress(key, mods)
KeyPress(key, mods) ==
    [key |-> key, ctrl |-> mods.ctrl, shift |-> mods.shift, alt |-> mods.alt, meta |-> mods.meta]

\* KeyPress.fromEvent(evt), evt = [key, ctrlKey, shiftKey, altKey, metaKey]
fromEvent(evt) ==
    LET key == IF Len(evt.key) > 1 THEN ToLowerCase(evt.key) ELSE evt.key
        mods == [ctrl |-> evt.ctrlKey, shift |-> evt.shiftKey,
                 alt |-> evt.altKey, meta |-> evt.metaKey]
        k == KeyPress(key, mods)
    IN  IF shouldIgnoreShift(key) THEN [k EXCEPT !.shift = FALSE] ELSE k

\* KeyPress.equals
KeyEquals(a, b) ==
    /\ a.key = b.key
    /\ a.ctrl = b.ctrl
    /\ a.shift = b.shift
    /\ a.alt = b.alt
    /\ a.meta = b.meta

\* The letters in alphabetical order
LetterOrder ==
    <<"a","b","c","d","e","f","g","h","i","j","k","l","m",
      "n","o","p","q","r","s","t","u","v","w","x","y","z">>

\* U+212A KELVIN SIGN, one character, canonically equivalent to the letter K
KelvinSign == "KELVIN SIGN"

\* Canonical decomposition, for the characters of the model
CanonicalChar(c) == IF c = KelvinSign THEN "K" ELSE c

\* Collation of the characters the sorting machine uses, in the order of the
\* root locale: white space, punctuation, digits, letters; the cases of a
\* letter differ at the third level only, the lower case first
PrimaryWeight(c) ==
    CASE c = " " -> 1
      [] c = "-" -> 2
      [] c = "?" -> 3
      [] c \in Digits -> 10 + (CHOOSE n \in 0..9 : <<"0","1","2","3","4","5","6","7","8","9">>[n + 1] = c)
      [] LowerChar(c) \in LowerLetters ->
            30 + (CHOOSE n \in 1..26 : LetterOrder[n] = LowerChar(c))
      [] OTHER -> 0

TertiaryWeight(c) == IF c \in UpperLetters THEN 1 ELSE 0

\* -1, 0 or 1 as weights x come before, with or after weights y
CompareWeights(x, y) ==
    LET differ == {i \in 1..Len(x) : i <= Len(y) /\ x[i] # y[i]}
    IN  IF differ # {}
        THEN LET i == CHOOSE j \in differ : \A k \in differ : j <= k
             IN  IF x[i] < y[i] THEN -1 ELSE 1
        ELSE IF Len(x) < Len(y) THEN -1
        ELSE IF Len(x) > Len(y) THEN 1
        ELSE 0

\* String.prototype.localeCompare: canonically equivalent strings compare as
\* 0; otherwise the first level decides, then the third
localeCompare(s, t) ==
    LET a == [i \in 1..Len(s) |-> CanonicalChar(s[i])]
        b == [i \in 1..Len(t) |-> CanonicalChar(t[i])]
        first == CompareWeights([i \in 1..Len(a) |-> PrimaryWeight(a[i])],
                                [i \in 1..Len(b) |-> PrimaryWeight(b[i])])
    IN  IF first # 0 THEN first
        ELSE CompareWeights([i \in 1..Len(a) |-> TertiaryWeight(a[i])],
                            [i \in 1..Len(b) |-> TertiaryWeight(b[i])])

\* KeyPress.compare(kp1, kp2)
compare(kp1, kp2) ==
    IF kp1.key # kp2.key
    THEN LET isPrintable1 == shouldIgnoreShift(kp1.key)
             isPrintable2 == shouldIgnoreShift(kp2.key)
         IN  IF ~isPrintable1 /\ isPrintable2 THEN -1
             ELSE IF isPrintable1 /\ ~isPrintable2 THEN 1
             ELSE localeCompare(kp1.key, kp2.key)
    ELSE IF ~kp1.ctrl /\ kp2.ctrl THEN -1
    ELSE IF kp1.ctrl /\ ~kp2.ctrl THEN 1
    ELSE IF ~kp1.shift /\ kp2.shift THEN -1
    ELSE IF kp1.shift /\ ~kp2.shift THEN 1
    ELSE IF ~kp1.alt /\ kp2.alt THEN -1
    ELSE IF kp1.alt /\ ~kp2.alt THEN 1
    ELSE IF ~kp1.meta /\ kp2.meta THEN -1
    ELSE IF kp1.meta /\ ~kp2.meta THEN 1
    ELSE 0

Space == <<" ">>
Dash == <<"-">>
ArrowUp == <<"a","r","r","o","w","u","p">>
ArrowDown == <<"a","r","r","o","w","d","o","w","n">>
ArrowLeft == <<"a","r","r","o","w","l","e","f","t">>
ArrowRight == <<"a","r","r","o","w","r","i","g","h","t">>

\* KEY_ALIASES[key] ?? key
KEY_ALIASES(key) ==
    CASE key = <<"s","p","a","c","e">> -> Space
      [] key = <<"s","p","c">> -> Space
      [] key = <<"u","p">> -> ArrowUp
      [] key = <<"d","o","w","n">> -> ArrowDown
      [] key = <<"l","e","f","t">> -> ArrowLeft
      [] key = <<"r","i","g","h","t">> -> ArrowRight
      [] OTHER -> key

\* REVERSE_ALIASES[key] ?? key
REVERSE_ALIASES(key) ==
    CASE key = Space -> <<"s","p","c">>
      [] key = ArrowUp -> <<"u","p">>
      [] key = ArrowDown -> <<"d","o","w","n">>
      [] key = ArrowLeft -> <<"l","e","f","t">>
      [] key = ArrowRight -> <<"r","i","g","h","t">>
      [] OTHER -> key

ParseKeySuccess(k) == [success |-> TRUE, key |-> k]

\* error 'Invalid key code: ' + JSON.stringify(s)
BaseError(s) == [success |-> FALSE, error |-> "Invalid key code", arg |-> s]

\* error 'Invalid modifier code: ' + modstr[i]
ModifierError(c) == [success |-> FALSE, error |-> "Invalid modifier code", arg |-> <<c>>]

\* Mutant: a modifier loop that knows the lower-case letters only
RECURSIVE ParseModsCaseSensitive(_, _, _)
ParseModsCaseSensitive(modstr, i, mods) ==
    IF i > Len(modstr) THEN [ok |-> TRUE, mods |-> mods]
    ELSE LET m == modstr[i]
         IN  CASE m = "c" -> ParseModsCaseSensitive(modstr, i + 1, [mods EXCEPT !.ctrl = TRUE])
               [] m = "s" -> ParseModsCaseSensitive(modstr, i + 1, [mods EXCEPT !.shift = TRUE])
               [] m = "a" -> ParseModsCaseSensitive(modstr, i + 1, [mods EXCEPT !.alt = TRUE])
               [] m = "m" -> ParseModsCaseSensitive(modstr, i + 1, [mods EXCEPT !.meta = TRUE])
               [] OTHER -> [ok |-> FALSE, bad |-> modstr[i]]

\* The modifier loop of parseKey: the flags set by modstr[i..], added to mods,
\* or the first character that is no modifier code.
RECURSIVE ParseMods(_, _, _)
ParseMods(modstr, i, mods) ==
    IF i > Len(modstr) THEN [ok |-> TRUE, mods |-> mods]
    ELSE LET m == LowerChar(modstr[i])
         IN  CASE m = "c" -> ParseMods(modstr, i + 1, [mods EXCEPT !.ctrl = TRUE])
               [] m = "s" -> ParseMods(modstr, i + 1, [mods EXCEPT !.shift = TRUE])
               [] m = "a" -> ParseMods(modstr, i + 1, [mods EXCEPT !.alt = TRUE])
               [] m = "m" -> ParseMods(modstr, i + 1, [mods EXCEPT !.meta = TRUE])
               [] OTHER -> [ok |-> FALSE, bad |-> modstr[i]]

\* The key half of a code that holds a dash: s.substring(dashPos + 1).toLowerCase()
KeyAfterDash(s, dashPos) == ToLowerCase(SubstringFrom(s, dashPos + 1))

\* The end of parseKey: case normalisation, aliases, the grammar test, shift
ParseKeyFinish(s, key0, mods0) ==
    LET key1 == IF Len(key0) > 1 THEN ToLowerCase(key0) ELSE key0
        key == KEY_ALIASES(key1)
    IN  IF ~KEYCODE_REGEXP(key) THEN BaseError(s)
        ELSE IF shouldIgnoreShift(key)
             THEN ParseKeySuccess(KeyPress(key, [mods0 EXCEPT !.shift = FALSE]))
             ELSE ParseKeySuccess(KeyPress(key, mods0))

parseKey(s) ==
    IF s = <<>> THEN BaseError(s)
    ELSE IF s = Dash THEN ParseKeySuccess(KeyPress(Dash, NoMods))
    ELSE LET dashPos == IndexOf(s, "-")
         IN  IF dashPos >= 0
             THEN LET modstr == Substring(s, 0, dashPos)
                      key == KeyAfterDash(s, dashPos)
                  IN  IF key = <<>> \/ modstr = <<>> THEN BaseError(s)
                      ELSE LET m == ParseMods(modstr, 1, NoMods)
                           IN  IF ~m.ok THEN ModifierError(m.bad)
                               ELSE ParseKeyFinish(s, key, m.mods)
             ELSE ParseKeyFinish(s, s, NoMods)

unparseKey(k) ==
    LET key == REVERSE_ALIASES(k.key)
        modstr == (IF k.ctrl THEN <<"c">> ELSE <<>>)
               \o (IF k.shift THEN <<"s">> ELSE <<>>)
               \o (IF k.alt THEN <<"a">> ELSE <<>>)
               \o (IF k.meta THEN <<"m">> ELSE <<>>)
    IN  IF modstr # <<>> THEN modstr \o Dash \o key ELSE key

-----------------------------------------------------------------------------
(* The key-code machine: key presses come from keyboard events or from the *)
(* constructor, codes come from unparseKey or are typed into a keymap file,*)
(* and parseKey reads them.                                                *)

NoKey == [key |-> <<>>, none |-> TRUE]
NoResult == [success |-> FALSE, error |-> "none"]

\* Longest code drawn from the whole alphabet
MaxCodeLen == 3

CodeAlphabet == {"a", "A", "c", "s", "-", " ", "?", "1"}

RECURSIVE StringsUpTo(_, _)
StringsUpTo(alphabet, n) ==
    IF n = 0 THEN {<<>>}
    ELSE LET shorter == StringsUpTo(alphabet, n - 1)
         IN  shorter \cup {Append(s, c) : s \in {t \in shorter : Len(t) = n - 1}, c \in alphabet}

\* Codes of the tests and of the README
NamedCodes ==
    { <<"s","p","c">>, <<"s","p","a","c","e">>, <<"L","E","F","T">>, <<"u","p">>,
      <<"e","n","t","e","r">>, <<"c","-","e","n","t","e","r">>, <<"C","-","e","n","t","e","r">>,
      <<"c","s","m","-","e","n","t","e","r">>, <<"M","c","S","-","e","N","T","e","R">>,
      <<"m","c","s","-","e","n","t","e","r">>, <<"s","a","-","e","n","t","e","r">>,
      <<"c","-","F","1","0">>, <<"f","1","3">>, <<"F","1">>, <<"c","-","-">>,
      <<"!","!","!">>, <<"0","1">>, <<"-","e","n","t","e","r">>, <<"x","-","e","n","t","e","r">>,
      <<"c","-">>, <<"c","-","?">>, <<"s","-","?">>, <<"c","-","/">>, <<"T">>, <<"c","-","T">>,
      <<"s","-","s","p","c">>, <<"\n">>,
      <<"c","s","-","a">>, <<"S","c","-","a">>, <<"c","s","c","-","a">>,
      <<"a","m","-","u","p">>, <<"M","A","m","-","U","P">>,
      <<"c","a","-","-">>, <<"S","m","-","-">>, <<"c","-","-","-">>, <<"c","-","a","-">> }

Codes == StringsUpTo(CodeAlphabet, MaxCodeLen) \cup NamedCodes

\* KeyboardEvent.key values
EventKeys ==
    { <<"a">>, <<"A">>, <<"?">>, <<"/">>, <<"1">>, <<"-">>, <<" ">>,
      <<"E","n","t","e","r">>, <<"T","a","b">>, <<"A","r","r","o","w","L","e","f","t">>,
      <<"A","r","r","o","w","U","p">>, <<"F","1">>, <<"F","1","0">>, <<"F","1","2">>,
      <<"P","a","g","e","U","p">>, <<"E","s","c","a","p","e">> }

Events ==
    [key : EventKeys, ctrlKey : BOOLEAN, shiftKey : BOOLEAN, altKey : BOOLEAN, metaKey : BOOLEAN]

\* Key names for the constructor: the grammar's three shapes
CtorKeys ==
    { <<"a">>, <<"A">>, <<"?">>, <<"-">>, <<" ">>, <<"1">>,
      <<"e","n","t","e","r">>, ArrowLeft, ArrowDown, <<"f","1">>, <<"f","1","2">> }

AllMods == [ctrl : BOOLEAN, shift : BOOLEAN, alt : BOOLEAN, meta : BOOLEAN]

KeyIdle ==
    /\ kpc = "idle"
    /\ origin = "none"
    /\ kp = NoKey
    /\ code = <<>>
    /\ res = NoResult

FileIdle ==
    /\ lines = <<>>
    /\ plugin = [state |-> "none"]

TreeIdle ==
    /\ heap = <<>>
    /\ phase = "off"
    /\ base = [id |-> 0]
    /\ last = [op |-> "none"]

KeyInit ==
    /\ KeyIdle
    /\ TreeIdle
    /\ FileIdle

\* A keyboard event arrives (leader modal, key-code generator)
PressKey(evt) ==
    /\ kpc = "idle"
    /\ kpc' = "haveKey"
    /\ origin' = "event"
    /\ kp' = fromEvent(evt)
    /\ UNCHANGED <<code, res, treeVars, fileVars>>

\* new KeyPress(key, mods) called directly
Construct(key, mods) ==
    /\ kpc = "idle"
    /\ kpc' = "haveKey"
    /\ origin' = "ctor"
    /\ kp' = KeyPress(key, mods)
    /\ UNCHANGED <<code, res, treeVars, fileVars>>

\* unparseKey(kp): the key-code generator's output
Unparse ==
    /\ kpc = "haveKey"
    /\ kpc' = "haveCode"
    /\ code' = unparseKey(kp)
    /\ UNCHANGED <<origin, kp, res, treeVars, fileVars>>

\* A key code written by hand in a keymap file
TypeCode(c) ==
    /\ kpc = "idle"
    /\ kpc' = "haveCode"
    /\ origin' = "typed"
    /\ code' = c
    /\ UNCHANGED <<kp, res, treeVars, fileVars>>

\* parseKey(code)
Parse ==
    /\ kpc = "haveCode"
    /\ kpc' = "parsed"
    /\ res' = parseKey(code)
    /\ UNCHANGED <<origin, kp, code, treeVars, fileVars>>

KeyNext ==
    \/ \E evt \in Events : PressKey(evt)
    \/ \E key \in CtorKeys, mods \in AllMods : Construct(key, mods)
    \/ Unparse
    \/ \E c \in Codes : TypeCode(c)
    \/ Parse

SpecKey == KeyInit /\ [][KeyNext]_vars

-----------------------------------------------------------------------------
(* C1: round trip. For every KeyPress kp built by the constructor from a   *)
(* key the grammar accepts, or by KeyPress.fromEvent, parseKey(unparseKey( *)
(* kp)) succeeds and returns a KeyPress equal to kp. Stated for the key    *)
(* presses whose shift flag parseKey can return at all: a constructed key  *)
(* press with shift set on a one-character key other than the space comes  *)
(* back without it, by the shift rule alone.                               *)
C1_RoundTrip ==
    (/\ kpc = "parsed"
     /\ origin \in {"event", "ctor"}
     /\ KEYCODE_REGEXP(kp.key)
     /\ ~(kp.shift /\ shouldIgnoreShift(kp.key)))
        => (res.success /\ KeyEquals(res.key, kp))

\* The base key of a key code: what follows the modifier prefix, if there is one
C7_BaseOf(c) ==
    IF c # Dash /\ IndexOf(c, "-") >= 0 THEN SubstringFrom(c, IndexOf(c, "-") + 1) ELSE c

(* C7: the base key is lowercased unless it is one character long, with or *)
(* without a modifier prefix: the parsed key is the alias of the base key, *)
(* the base key being kept as typed when it is one character and           *)
(* lowercased otherwise.                                                   *)
C7_CaseRule ==
    (kpc = "parsed" /\ origin = "typed" /\ res.success)
        => LET basekey == C7_BaseOf(code)
           IN  res.key.key = KEY_ALIASES(IF Len(basekey) = 1 THEN basekey
                                         ELSE ToLowerCase(basekey))

\* A key that is one character other than the space character
C11_OneCharNotSpace(key) == Len(key) = 1 /\ key[1] # " "

\* Whether the modifier run of a typed code asks for shift
C11_AsksShift(c) ==
    /\ c # Dash
    /\ IndexOf(c, "-") > 0
    /\ \E i \in 1..IndexOf(c, "-") : c[i] \in {"s", "S"}

(* C11: shift suppression. Every KeyPress produced by parseKey or by        *)
(* KeyPress.fromEvent whose key is one character other than the space has   *)
(* shift = false, whatever modifier letters or event flags were supplied;   *)
(* parseKey('?') and parseKey('s-?') succeed with key '?' and shift =       *)
(* false; shift is kept for the space and for keys of several characters.   *)
C11_ShiftSuppression ==
    /\ (kpc = "haveKey" /\ origin = "event" /\ C11_OneCharNotSpace(kp.key)) => ~kp.shift
    /\ (kpc = "parsed" /\ res.success /\ C11_OneCharNotSpace(res.key.key)) => ~res.key.shift
    /\ (kpc = "parsed" /\ origin = "typed" /\ code \in {<<"?">>, <<"s","-","?">>})
          => res = ParseKeySuccess(KeyPress(<<"?">>, NoMods))
    /\ (kpc = "parsed" /\ origin = "typed" /\ res.success
            /\ ~C11_OneCharNotSpace(res.key.key))
          => (res.key.shift <=> C11_AsksShift(code))
    /\ (kpc = "haveKey" /\ origin = "event" /\ ~C11_OneCharNotSpace(kp.key))
          => \A evt \in Events :
                 fromEvent(evt).key = kp.key => fromEvent(evt).shift = evt.shiftKey

\* 's-?' was parsed: shift was asked for on a one-character key and dropped
C11_Witness ==
    /\ kpc = "parsed"
    /\ origin = "typed"
    /\ code = <<"s","-","?">>
    /\ res.success
    /\ ~res.key.shift

\* The modifier run of a code: what precedes its first dash (none without one)
C12_ModRun(c) ==
    IF c # Dash /\ IndexOf(c, "-") > 0 THEN Substring(c, 0, IndexOf(c, "-")) ELSE <<>>

\* The set of modifier letters of a code, whatever their case, order and number
C12_ModSet(c) == {LowerChar(C12_ModRun(c)[i]) : i \in 1..Len(C12_ModRun(c))}

\* Codes with a modifier run made of the letters c, s, a, m in either case
C12_Modified(c) == C12_ModRun(c) # <<>> /\ C12_ModSet(c) \subseteq {"c", "s", "a", "m"}

\* The same base key: as typed, or, for keys of several characters, in any case
C12_SameBase(c, d) ==
    \/ C7_BaseOf(c) = C7_BaseOf(d)
    \/ /\ Len(C7_BaseOf(c)) > 1
       /\ ToLowerCase(C7_BaseOf(c)) = ToLowerCase(C7_BaseOf(d))

(* C12: the result of parseKey does not depend on the case, order or        *)
(* multiplicity of the modifier letters: two codes with the same base key   *)
(* whose modifier runs hold the same set of letters of c, s, a, m both fail *)
(* or yield equal KeyPress values; 'csm-enter', 'McS-eNTeR' and 'mcs-enter' *)
(* yield key 'enter' with ctrl, shift and meta set and alt unset.           *)
C12_ModifierLetters ==
    (kpc = "parsed" /\ origin = "typed" /\ C12_Modified(code)) =>
        /\ \A d \in Codes :
              (C12_Modified(d) /\ C12_ModSet(d) = C12_ModSet(code) /\ C12_SameBase(code, d))
                 => /\ parseKey(d).success = res.success
                    /\ res.success => KeyEquals(parseKey(d).key, res.key)
        /\ code \in { <<"c","s","m","-","e","n","t","e","r">>,
                      <<"M","c","S","-","e","N","T","e","R">>,
                      <<"m","c","s","-","e","n","t","e","r">> }
              => res = ParseKeySuccess(KeyPress(<<"e","n","t","e","r">>,
                           [ctrl |-> TRUE, shift |-> TRUE, alt |-> FALSE, meta |-> TRUE]))

\* A code with upper-case, reordered modifier letters was parsed, and another
\* spelling of the same modifiers and key is among the codes
C12_Witness ==
    /\ kpc = "parsed"
    /\ origin = "typed"
    /\ code = <<"M","c","S","-","e","N","T","e","R">>
    /\ res.success
    /\ \E d \in Codes :
          d # code /\ C12_ModRun(d) # C12_ModRun(code)
             /\ C12_ModSet(d) = C12_ModSet(code) /\ C12_SameBase(code, d)

\* Whether a code holds the separator
C13_HasDash(c) == IndexOf(c, "-") >= 0

\* The two halves of a code that holds the separator, split at its first dash
C13_ModHalf(c) == Substring(c, 0, IndexOf(c, "-"))

C13_KeyHalf(c) == SubstringFrom(c, IndexOf(c, "-") + 1)

\* The base key of a code: the key half, or the whole code without a separator
C13_Base(c) == IF C13_HasDash(c) THEN C13_KeyHalf(c) ELSE c

\* The accepted key names, after lowercasing and aliases: one character, a run
\* of letters, or f1 to f12
C13_KeyName(k) ==
    LET n == ToLowerCase(k)
    IN  \/ Len(n) = 1
        \/ Len(n) >= 1 /\ \A i \in 1..Len(n) : n[i] \in LowerLetters
        \/ Len(n) = 2 /\ n[1] = "f" /\ n[2] \in Digits \ {"0"}
        \/ n \in {<<"f","1","0">>, <<"f","1","1">>, <<"f","1","2">>}

\* The characters of a modifier half that are no modifier letters
C13_BadModifiers(m) == {i \in 1..Len(m) : LowerChar(m[i]) \notin {"c", "s", "a", "m"}}

C13_KeyCodeFailure == ~res.success /\ res.error = "Invalid key code" /\ res.arg = code

\* An 'Invalid modifier code' failure that names one of the offending characters
C13_ModifierFailure ==
    /\ ~res.success
    /\ res.error = "Invalid modifier code"
    /\ \E i \in C13_BadModifiers(C13_ModHalf(code)) : res.arg = <<C13_ModHalf(code)[i]>>

(* C13: parseKey returns a success or a failure value for every string; it  *)
(* fails with 'Invalid key code' for the empty string, for a base key that  *)
(* is not one character, a run of letters or f1 to f12, and for a code      *)
(* holding '-' whose modifier half or key half is empty; it fails with      *)
(* 'Invalid modifier code', naming the character, when a character of the   *)
(* modifier run is not one of c, s, a, m.                                   *)
C13_MalformedCodes ==
    (kpc = "parsed" /\ origin = "typed") =>
        /\ res.success \in BOOLEAN
        /\ code = <<>> => C13_KeyCodeFailure
        /\ (code # <<>> /\ ~C13_KeyName(C13_Base(code))) => C13_KeyCodeFailure
        /\ (C13_HasDash(code) /\ (C13_ModHalf(code) = <<>> \/ C13_KeyHalf(code) = <<>>))
              => C13_KeyCodeFailure
        /\ (C13_HasDash(code) /\ C13_BadModifiers(C13_ModHalf(code)) # {})
              => C13_ModifierFailure

(* C13 as amended: the code '-' alone is the key '-'; for every other code  *)
(* the checks are made in this order and the first that applies decides: an *)
(* empty code, or an empty modifier half or key half, is 'Invalid key       *)
(* code'; a character of the modifier run that is not one of c, s, a, m is  *)
(* 'Invalid modifier code' naming the first such character; a base key that *)
(* is not one character, a run of letters or f1 to f12 is 'Invalid key      *)
(* code'.                                                                   *)
C13_MalformedCodesAmended ==
    (kpc = "parsed" /\ origin = "typed") =>
        /\ res.success \in BOOLEAN
        /\ code = Dash => res = ParseKeySuccess(KeyPress(Dash, NoMods))
        /\ code # Dash =>
              IF code = <<>> THEN C13_KeyCodeFailure
              ELSE IF C13_HasDash(code)
                      /\ (C13_ModHalf(code) = <<>> \/ C13_KeyHalf(code) = <<>>)
              THEN C13_KeyCodeFailure
              ELSE IF C13_HasDash(code) /\ C13_BadModifiers(C13_ModHalf(code)) # {}
              THEN /\ C13_ModifierFailure
                   /\ \A i \in C13_BadModifiers(C13_ModHalf(code)) :
                         res.arg = <<C13_ModHalf(code)[i]>>
                            \/ \E j \in C13_BadModifiers(C13_ModHalf(code)) : j < i
              ELSE ~C13_KeyName(KEY_ALIASES(IF Len(C13_Base(code)) > 1
                                            THEN ToLowerCase(C13_Base(code))
                                            ELSE C13_Base(code)))
                      => C13_KeyCodeFailure

\* 'x-enter' was refused with the modifier named
C13_Witness ==
    /\ kpc = "parsed"
    /\ origin = "typed"
    /\ code = <<"x","-","e","n","t","e","r">>
    /\ res = ModifierError("x")

\* The flags a run of modifier letters asks for
C21_Asked(run) ==
    [ctrl  |-> \E i \in 1..Len(run) : LowerChar(run[i]) = "c",
     shift |-> \E i \in 1..Len(run) : LowerChar(run[i]) = "s",
     alt   |-> \E i \in 1..Len(run) : LowerChar(run[i]) = "a",
     meta  |-> \E i \in 1..Len(run) : LowerChar(run[i]) = "m"]

\* code is a non-empty run of modifier letters, the separator and the key '-'
C21_DashWithModifiers(c) ==
    /\ Len(c) >= 3
    /\ SubSeq(c, Len(c) - 1, Len(c)) = <<"-", "-">>
    /\ \A i \in 1..(Len(c) - 2) : LowerChar(c[i]) \in {"c", "s", "a", "m"}

-----------------------------------------------------------------------------
(* The sorting machine: the suggestions of the leader modal are sorted by   *)
(* their key presses, and the sort calls KeyPress.compare on pairs of them. *)

\* Keys of suggestions: named keys, the space, and single characters
SortKeys ==
    { <<"e","n","t","e","r">>, <<"f","1">>, Space,
      <<"a">>, <<"A">>, <<"K">>, <<KelvinSign>>, <<"?">>, <<"1">> }

SortKeyPresses == {KeyPress(key, mods) : key \in SortKeys, mods \in AllMods}

SortInit ==
    /\ KeyIdle
    /\ TreeIdle
    /\ FileIdle

\* The sort compares the key presses of two suggestions, in both orders
CompareKeyPresses(a, b) ==
    /\ phase = "off"
    /\ last.op = "none"
    /\ last' = [op |-> "compare", a |-> a, b |-> b, ab |-> compare(a, b), ba |-> compare(b, a)]
    /\ UNCHANGED <<heap, phase, base, keyVars, fileVars>>

SortNext == last.op = "none" /\ \E a, b \in SortKeyPresses : CompareKeyPresses(a, b)

SpecSort == SortInit /\ [][SortNext]_vars

\* Whether shift counts for the key: named keys and the space
C26_Special(k) == ~(Len(k.key) = 1 /\ k.key # Space)

\* The flags of a key press, the one of highest priority first
C26_Flags(k) == <<k.ctrl, k.shift, k.alt, k.meta>>

\* Flags f come before flags g: at the first flag that differs, f's is unset
C26_FlagsBefore(f, g) ==
    \E i \in 1..4 : f[i] # g[i] /\ ~f[i] /\ \A j \in 1..(i - 1) : f[j] = g[j]

(* C26: KeyPress.compare is a total order consistent with structural        *)
(* equality: compare(a, b) = 0 exactly when a.equals(b), compare(a, b) and  *)
(* compare(b, a) have opposite signs, and the order is transitive; keys for *)
(* which shift is not ignored sort before single printable characters, then *)
(* keys sort by key string (the flags play no part when the keys differ),   *)
(* then equal keys sort by flags with priority ctrl, shift, alt, meta, an   *)
(* unset flag before a set one.                                             *)
C26_TotalOrder ==
    last.op = "compare" =>
        LET a == last.a
            b == last.b
        IN  /\ last.ab \in {-1, 0, 1}
            /\ last.ab = 0 <=> KeyEquals(a, b)
            /\ last.ba = 0 - last.ab
            /\ \A c \in SortKeyPresses :
                  (last.ab <= 0 /\ compare(b, c) <= 0) => compare(a, c) <= 0
            /\ (C26_Special(a) /\ ~C26_Special(b)) => last.ab = -1
            /\ (a.key # b.key /\ C26_Special(a) = C26_Special(b)) =>
                  /\ last.ab # 0
                  /\ last.ab = compare(KeyPress(a.key, NoMods), KeyPress(b.key, NoMods))
            /\ a.key = b.key =>
                  /\ C26_FlagsBefore(C26_Flags(a), C26_Flags(b)) => last.ab = -1
                  /\ C26_FlagsBefore(C26_Flags(b), C26_Flags(a)) => last.ab = 1

-----------------------------------------------------------------------------
(* Parsed YAML data (YAMLData). A string is [t: "str", s], an object is    *)
(* [t: "obj", e] with e the sequence of its properties [k, v] in the order *)
(* for..in enumerates them.                                                *)

YNull == [t |-> "null"]
YUndefined == [t |-> "undefined"]
YStr(s) == [t |-> "str", s |-> s]
YNum(n) == [t |-> "num", n |-> n]
YBool(b) == [t |-> "bool", b |-> b]
YArr == [t |-> "arr"]
YObj(e) == [t |-> "obj", e |-> e]

\* A canonical array index: the property names JavaScript enumerates first,
\* in ascending numeric order
IsArrayIndex(k) ==
    /\ Len(k) >= 1
    /\ \A i \in 1..Len(k) : k[i] \in Digits
    /\ (Len(k) > 1 => k[1] # "0")

DigitValue(c) ==
    CASE c = "0" -> 0 [] c = "1" -> 1 [] c = "2" -> 2 [] c = "3" -> 3 [] c = "4" -> 4
      [] c = "5" -> 5 [] c = "6" -> 6 [] c = "7" -> 7 [] c = "8" -> 8 [] c = "9" -> 9

RECURSIVE IndexValue(_)
IndexValue(k) ==
    IF k = <<>> THEN 0
    ELSE 10 * IndexValue(SubSeq(k, 1, Len(k) - 1)) + DigitValue(k[Len(k)])

SelectEntries(e, Test(_)) == SelectSeq(e, LAMBDA x : Test(x.k))

IsOtherName(k) == ~IsArrayIndex(k)

\* The property order of a JavaScript object whose properties were created in
\* the order of e: array indices ascending, then the other names as created
JSObject(e) ==
    YObj(SortSeq(SelectEntries(e, IsArrayIndex),
                 LAMBDA x, y : IndexValue(x.k) < IndexValue(y.k))
         \o SelectEntries(e, IsOtherName))

\* isYAMLObject
isYAMLObject(value) == value.t = "obj"

\* name in data
HasProp(data, name) == \E i \in 1..Len(data.e) : data.e[i].k = name

\* data[name]
Prop(data, name) ==
    IF HasProp(data, name)
    THEN data.e[CHOOSE i \in 1..Len(data.e) : data.e[i].k = name].v
    ELSE YUndefined

\* !value for a string
IsEmptyString(value) == value.t = "str" /\ value.s = <<>>

ITEMS == <<"i","t","e","m","s">>
COMMAND == <<"c","o","m","m","a","n","d">>
FILE == <<"f","i","l","e">>
DESCRIPTION == <<"d","e","s","c","r","i","p","t","i","o","n">>
CLEAR == <<"c","l","e","a","r">>

WhiteSpace == {" ", "\t", "\n", "\r"}

\* String.prototype.trim
RECURSIVE TrimStart(_)
TrimStart(s) == IF s # <<>> /\ s[1] \in WhiteSpace THEN TrimStart(Tail(s)) ELSE s

RECURSIVE TrimEnd(_)
TrimEnd(s) ==
    IF s # <<>> /\ s[Len(s)] \in WhiteSpace THEN TrimEnd(SubSeq(s, 1, Len(s) - 1)) ELSE s

Trim(s) == TrimEnd(TrimStart(s))

\* splitFirst(s, delim) for a one-character string delimiter: [first, rest], rest
\* null when the delimiter does not occur
splitFirst(s, delim) ==
    LET pos == IndexOf(s, delim)
    IN  IF pos < 0 THEN <<YStr(s), YNull>>
        ELSE <<YStr(Substring(s, 0, pos)), YStr(SubstringFrom(s, pos + 1))>>

\* desc?.trim() || null
TrimOrNull(desc) ==
    IF desc.t = "str" /\ Trim(desc.s) # <<>> THEN YStr(Trim(desc.s)) ELSE YNull

-----------------------------------------------------------------------------
(* The keymap tree. Objects live in the heap and are named by their id     *)
(* (their index); 0 is null / undefined.                                   *)

Null == 0

KeymapCommand(command_id, description) ==
    [type |-> "command", command_id |-> command_id, description |-> description]

KeymapFile(file_path, description) ==
    [type |-> "file", file_path |-> file_path, description |-> description]

KeymapGroup(description) ==
    [type |-> "group", description |-> description, children |-> <<>>]

\* new ...: the heap with the object added, and its id
Alloc(h, obj) == [h |-> Append(h, obj), id |-> Len(h) + 1]

IsGroup(h, id) == id # Null /\ h[id].type = "group"

\* Mutant: a lookup that never finds the key
ChildIndexNeverFinds(children, key) == 0

\* Index of the first child with an equal key, 0 when there is none
ChildIndex(children, key) ==
    IF \E i \in 1..Len(children) : KeyEquals(children[i].key, key)
    THEN CHOOSE i \in 1..Len(children) :
            /\ KeyEquals(children[i].key, key)
            /\ \A j \in 1..(i - 1) : ~KeyEquals(children[j].key, key)
    ELSE 0

\* Mutant: a splice that removes everything from the i-th element on
RemoveFrom(seq, i) == SubSeq(seq, 1, i - 1)

\* Array.prototype.splice(i, 1)
RemoveAt(seq, i) == SubSeq(seq, 1, i - 1) \o SubSeq(seq, i + 1, Len(seq))

\* Mutant: setChild that never looks for an equal key
SetChildAlwaysPushes(children, key, item) == Append(children, [key |-> key, item |-> item])

\* Mutant: setChild that moves a replaced child to the end
SetChildMovesToEnd(children, key, item) ==
    LET i == ChildIndex(children, key)
    IN  Append(IF i # 0 THEN RemoveAt(children, i) ELSE children,
               [key |-> key, item |-> item])

\* The children of group g after setChild(key, item)
SetChildChildren(children, key, item) ==
    LET i == ChildIndex(children, key)
    IN  IF i # 0 THEN [children EXCEPT ![i] = [key |-> key, item |-> item]]
        ELSE Append(children, [key |-> key, item |-> item])

\* KeymapGroup.setChild: the heap afterwards and the overwritten item
setChild(h, g, key, item) ==
    LET i == ChildIndex(h[g].children, key)
    IN  [h |-> [h EXCEPT ![g].children = SetChildChildren(h[g].children, key, item)],
         rval |-> IF i # 0 THEN h[g].children[i].item ELSE Null]

\* Mutant: removeChild that removes nothing
RemoveChildNothing(h, g, key) == [h |-> h, rval |-> Null]

\* KeymapGroup.removeChild: the heap afterwards and the removed item
removeChild(h, g, key) ==
    LET i == ChildIndex(h[g].children, key)
    IN  IF i # 0
        THEN [h |-> [h EXCEPT ![g].children = RemoveAt(h[g].children, i)],
              rval |-> h[g].children[i].item]
        ELSE [h |-> h, rval |-> Null]

\* KeymapGroup.getChild
getChild(h, g, key) ==
    LET i == ChildIndex(h[g].children, key)
    IN  IF i # 0 THEN h[g].children[i].item ELSE Null

\* Mutant: copy that returns the group itself
CopyReturnsThis(h, g) == [h |-> h, id |-> g]

\* KeymapGroup.copy: a new group with the same description and a copy of the
\* children array; the child items are shared
copy(h, g) ==
    Alloc(h, [type |-> "group", description |-> h[g].description,
              children |-> h[g].children])

\* The loop of KeymapGroup.find, from the i-th key on
RECURSIVE FindLoop(_, _, _, _, _)
FindLoop(h, selected, keys, i, strict) ==
    IF i > Len(keys) THEN selected
    ELSE IF ~IsGroup(h, selected) THEN (IF strict THEN Null ELSE selected)
    ELSE LET child == getChild(h, selected, keys[i])
         IN  IF child = Null THEN Null
             ELSE FindLoop(h, child, keys, i + 1, strict)

\* Mutant: find that never treats the lookup as strict
FindNeverStrict(h, g, keys, strict) == FindLoop(h, g, keys, 1, FALSE)

\* Mutant: find that treats every lookup as strict
FindAlwaysStrict(h, g, keys, strict) == FindLoop(h, g, keys, 1, TRUE)

\* KeymapGroup.find
find(h, g, keys, strict) == FindLoop(h, g, keys, 1, strict)

RECURSIVE WalkGroup(_, _, _)
RECURSIVE WalkChildren(_, _, _, _)

\* Mutant: a walk that calls the visitor for a group after its children
WalkGroupPostOrder(h, g, keys) ==
    WalkChildren(h, g, keys, 1) \o <<[item |-> g, keys |-> keys]>>

\* KeymapGroup._walk(func, keys): the calls of func, in order, as [item, keys]
WalkGroup(h, g, keys) ==
    <<[item |-> g, keys |-> keys]>> \o WalkChildren(h, g, keys, 1)

\* The loop of _walk over this.children, from the i-th child on
WalkChildren(h, g, keys, i) ==
    IF i > Len(h[g].children) THEN <<>>
    ELSE LET child == h[g].children[i]
             child_keys == keys \o <<child.key>>
         IN  (IF IsGroup(h, child.item)
              THEN WalkGroup(h, child.item, child_keys)
              ELSE <<[item |-> child.item, keys |-> child_keys]>>)
             \o WalkChildren(h, g, keys, i + 1)

\* KeymapGroup.walk(func)
walk(h, g) == WalkGroup(h, g, <<>>)

\* Names every object inherits from Object.prototype ('constructor', among
\* others): map[name] is defined for them on an object literal without own
\* properties
CONSTRUCTOR == <<"c","o","n","s","t","r","u","c","t","o","r">>
TO_STRING == <<"t","o","S","t","r","i","n","g">>

ObjectPrototypeNames == {CONSTRUCTOR, TO_STRING}

\* new TypeError: "(intermediate value).push is not a function"
TypeError(msg) ==
    [kind |-> "TypeError", msg |-> msg, arg |-> <<>>, path |-> <<>>,
     pathNull |-> TRUE, data |-> YNull]

\* Whether map has an own property id; map is the sequence of its own
\* properties [id, paths] in insertion order
HasOwn(map, id) == \E k \in 1..Len(map) : map[k].id = id

\* (map[id] ??= []).push(keys) where map[id] is an own property or undefined
PushPath(map, id, keys) ==
    IF HasOwn(map, id)
    THEN [k \in 1..Len(map) |->
             IF map[k].id = id THEN [id |-> id, paths |-> Append(map[k].paths, keys)] ELSE map[k]]
    ELSE Append(map, [id |-> id, paths |-> <<keys>>])

\* The visitor of assignedCommands over the calls of walk, from the i-th on.
\* For an id that names an inherited property, map[id] is that property and
\* not nullish, nothing is assigned, and the call of its push throws.
RECURSIVE AssignedLoop(_, _, _, _)
AssignedLoop(h, calls, i, map) ==
    IF i > Len(calls) THEN [ok |-> TRUE, map |-> map, err |-> [kind |-> "none"]]
    ELSE IF h[calls[i].item].type # "command" THEN AssignedLoop(h, calls, i + 1, map)
    ELSE LET id == h[calls[i].item].command_id
         IN  IF id \in ObjectPrototypeNames /\ ~HasOwn(map, id)
             THEN [ok |-> FALSE, map |-> map, err |-> TypeError("push is not a function")]
             ELSE AssignedLoop(h, calls, i + 1, PushPath(map, id, calls[i].keys))

\* KeymapGroup.assignedCommands
assignedCommands(h, g) == AssignedLoop(h, walk(h, g), 1, <<>>)

\* The ids an object refers to, itself included
RECURSIVE Reach(_, _)
Reach(h, id) ==
    IF id = Null THEN {}
    ELSE IF h[id].type # "group" THEN {id}
    ELSE {id} \cup UNION {Reach(h, h[id].children[i].item) : i \in 1..Len(h[id].children)}

\* The value of the tree at id: variants, descriptions, keys and child order
RECURSIVE Tree(_, _)
Tree(h, id) ==
    IF id = Null THEN [type |-> "null"]
    ELSE IF h[id].type # "group" THEN h[id]
    ELSE [type |-> "group", description |-> h[id].description,
          children |-> [i \in 1..Len(h[id].children) |->
                            [key |-> h[id].children[i].key,
                             item |-> Tree(h, h[id].children[i].item)]]]

-----------------------------------------------------------------------------
(* The parser: keymap items from parsed YAML data. A call returns the heap *)
(* as the call left it, and either the id of the item or the error thrown. *)

\* The cause of an error that has none: options.cause ?? null
NoCause == [name |-> "null"]

\* new KeymapParseError(msg, {path, data}); data ?? null
KeymapParseError(msg, arg, path, data) ==
    [kind |-> "KeymapParseError", msg |-> msg, arg |-> arg, path |-> path,
     pathNull |-> FALSE, data |-> IF data = YUndefined THEN YNull ELSE data,
     cause |-> NoCause]

\* new KeymapParseError(msg): path, data and cause are null
KeymapParseErrorNoPath(msg) ==
    [kind |-> "KeymapParseError", msg |-> msg, arg |-> <<>>, path |-> <<>>,
     pathNull |-> TRUE, data |-> YNull, cause |-> NoCause]

\* new KeymapParseError(String(error), {cause: error}): path and data are null
KeymapParseErrorCause(error) ==
    [kind |-> "KeymapParseError", msg |-> error.name, arg |-> <<>>, path |-> <<>>,
     pathNull |-> TRUE, data |-> YNull, cause |-> error]

\* new AssertionError(msg)
AssertionError(msg) ==
    [kind |-> "AssertionError", msg |-> msg, arg |-> <<>>, path |-> <<>>,
     pathNull |-> TRUE, data |-> YNull]

NoError == [kind |-> "none"]

Returned(h, item) == [h |-> h, ok |-> TRUE, item |-> item, err |-> NoError]

Threw(h, err) == [h |-> h, ok |-> FALSE, item |-> Null, err |-> err]

\* parseError(msg, path, data, extraPath)
parseError(h, msg, path, data, extraPath) ==
    Threw(h, KeymapParseError(msg, <<>>, path \o extraPath, data))

BoolToNumber(b) == IF b THEN 1 ELSE 0

\* Mutant: only more than one of the three properties is refused
MoreThanOne(data) ==
    BoolToNumber(HasProp(data, COMMAND)) + BoolToNumber(HasProp(data, FILE))
        + BoolToNumber(HasProp(data, ITEMS)) > 1

\* (+isCommand) + (+isFile) + (+isGroup) != 1
NotExactlyOne(data) ==
    BoolToNumber(HasProp(data, COMMAND)) + BoolToNumber(HasProp(data, FILE))
        + BoolToNumber(HasProp(data, ITEMS)) # 1

\* The short form: a command from a non-empty string
ShortFormCommand(s) ==
    LET parts == splitFirst(Trim(s), " ")
    IN  KeymapCommand(parts[1].s, TrimOrNull(parts[2]))

\* Mutant: an "Add description" step that keeps the empty string
AddDescriptionAsIs(r, data, path) ==
    IF ~r.ok \/ ~HasProp(data, DESCRIPTION) THEN r
    ELSE LET d == Prop(data, DESCRIPTION)
         IN  IF d.t # "str" /\ d.t # "null"
             THEN parseError(r.h, "Expected string or null", path, d, <<DESCRIPTION>>)
             ELSE Returned([r.h EXCEPT ![r.item].description = d], r.item)

\* The "Add description" step of keymapItemFromYAML, on the item just built
AddDescription(r, data, path) ==
    IF ~r.ok \/ ~HasProp(data, DESCRIPTION) THEN r
    ELSE LET d == Prop(data, DESCRIPTION)
         IN  IF d.t # "str" /\ d.t # "null"
             THEN parseError(r.h, "Expected string or null", path, d, <<DESCRIPTION>>)
             ELSE Returned([r.h EXCEPT ![r.item].description =
                                IF d.t = "str" /\ d.s # <<>> THEN d ELSE YNull],
                           r.item)

\* Mutant: a group node that starts from extend.copy() whatever clear says
StartGroupAlwaysCopies(h, data, extend) ==
    IF extend # Null THEN copy(h, extend) ELSE Alloc(h, KeymapGroup(YNull))

\* The group a group node starts from: extend.copy(), or new KeymapGroup()
StartGroup(h, data, extend) ==
    IF extend # Null /\ Prop(data, CLEAR) # YBool(TRUE)
    THEN copy(h, extend)
    ELSE Alloc(h, KeymapGroup(YNull))

RECURSIVE keymapItemFromYAML(_, _, _, _)
RECURSIVE keymapGroupFromYAML(_, _, _, _)
RECURSIVE GroupLoop(_, _, _, _, _)

\* The loop of keymapGroupFromYAML over data.items, from its i-th property on
GroupLoop(h, group, data, path, i) ==
    LET items == Prop(data, ITEMS)
    IN  IF items.t # "obj" \/ i > Len(items.e) THEN Returned(h, group)
        ELSE LET keyStr == items.e[i].k
                 value == items.e[i].v
                 result == parseKey(keyStr)
             IN  IF ~result.success
                 THEN Threw(h, KeymapParseError(result.error, result.arg,
                                                path \o <<ITEMS>>, items))
                 ELSE IF value = YNull
                 THEN GroupLoop(removeChild(h, group, result.key).h, group, data, path, i + 1)
                 ELSE LET existingChild == getChild(h, group, result.key)
                          extendChild == IF IsGroup(h, existingChild)
                                         THEN existingChild ELSE Null
                          child == keymapItemFromYAML(h, value, path \o <<ITEMS, keyStr>>,
                                                      extendChild)
                      IN  IF ~child.ok THEN child
                          ELSE GroupLoop(setChild(child.h, group, result.key, child.item).h,
                                         group, data, path, i + 1)

keymapGroupFromYAML(h, data, path, extend) ==
    LET items == Prop(data, ITEMS)
        clear == Prop(data, CLEAR)
    IN  IF ~isYAMLObject(items) /\ items # YNull
        THEN parseError(h, "Expected group.items to be an object", path,
                        Prop(data, <<"i","t","e","m">>), <<ITEMS>>)
        ELSE IF clear # YUndefined /\ clear.t # "bool"
        THEN parseError(h, "Expected group.clear to be a bool", path, clear, <<CLEAR>>)
        ELSE LET start == StartGroup(h, data, extend)
             IN  GroupLoop(start.h, start.id, data, path, 1)

keymapItemFromYAML(h, data, path, extend) ==
    IF data.t = "str"
    THEN IF IsEmptyString(data)
         THEN parseError(h, "Empty string not allowed", path, data, <<>>)
         ELSE LET a == Alloc(h, ShortFormCommand(data.s)) IN Returned(a.h, a.id)
    ELSE IF ~isYAMLObject(data)
    THEN parseError(h, "Expected string or object", path, data, <<>>)
    ELSE IF NotExactlyOne(data)
    THEN parseError(h, "Object must have exactly one of: items, command, file", path, data, <<>>)
    ELSE IF HasProp(data, COMMAND)
    THEN LET c == Prop(data, COMMAND)
         IN  IF c.t # "str"
             THEN parseError(h, "Expected string", path, c, <<COMMAND>>)
             ELSE IF IsEmptyString(c)
             THEN parseError(h, "Command ID cannot be empty", path, c, <<COMMAND>>)
             ELSE LET a == Alloc(h, KeymapCommand(c.s, YNull))
                  IN  AddDescription(Returned(a.h, a.id), data, path)
    ELSE IF HasProp(data, FILE)
    THEN LET f == Prop(data, FILE)
         IN  IF f.t # "str"
             THEN parseError(h, "Expected string", path, Prop(data, COMMAND), <<FILE>>)
             ELSE IF IsEmptyString(f)
             THEN parseError(h, "File name cannot be empty", path, Prop(data, COMMAND), <<FILE>>)
             ELSE LET a == Alloc(h, KeymapFile(f.s, YNull))
                  IN  AddDescription(Returned(a.h, a.id), data, path)
    ELSE IF HasProp(data, ITEMS)
    THEN AddDescription(keymapGroupFromYAML(h, data, path, extend), data, path)
    ELSE Threw(h, AssertionError("Shouldn't happen."))

-----------------------------------------------------------------------------
(* The parser machine: keymapItemFromYAML is called on a node of parsed    *)
(* YAML, and then, as loadKeymap and the tests do, a second document is    *)
(* parsed with the first group as extendGroup.                             *)

Obj1(k1, v1) == JSObject(<<[k |-> k1, v |-> v1]>>)
Obj2(k1, v1, k2, v2) == JSObject(<<[k |-> k1, v |-> v1], [k |-> k2, v |-> v2]>>)
Obj3(k1, v1, k2, v2, k3, v3) ==
    JSObject(<<[k |-> k1, v |-> v1], [k |-> k2, v |-> v2], [k |-> k3, v |-> v3]>>)

\* Longest short-form string drawn from the whole string alphabet
MaxStrLen == 3

StringNodes == {YStr(s) : s \in StringsUpTo({"f", "d", " ", "\t"}, MaxStrLen)}

OptionalProp(name, values) == {<<>>} \cup {<<[k |-> name, v |-> v]>> : v \in values}

\* Object nodes with every combination of the five property names
ObjectNodes ==
    { JSObject(d \o cl \o c \o f \o i) :
        d \in OptionalProp(DESCRIPTION, {YStr(<<"d">>), YStr(<<>>), YNull, YNum(1)}),
        cl \in OptionalProp(CLEAR, {YBool(TRUE), YNum(0)}),
        c \in OptionalProp(COMMAND, {YStr(<<"f">>), YStr(<<>>), YNum(1)}),
        f \in OptionalProp(FILE, {YStr(<<"n">>), YStr(<<>>), YNull}),
        i \in OptionalProp(ITEMS, {YObj(<<>>), YNull, YArr, Obj1(<<"a">>, YStr(<<"f">>))}) }

ScalarNodes == {YNull, YNum(1), YBool(TRUE), YArr}

LeafNodes == StringNodes \cup ObjectNodes \cup ScalarNodes

\* The documents parsed first
BaseDoc1 ==
    Obj1(ITEMS,
         Obj3(<<"g">>, Obj2(DESCRIPTION, YStr(<<"G">>),
                            ITEMS, Obj2(<<"b">>, YStr(<<"f">>), <<"c">>, YStr(<<"f"," ","x">>))),
              <<"a">>, YStr(<<"f">>),
              <<"3">>, Obj1(FILE, YStr(<<"n">>))))

BaseDoc2 ==
    Obj2(DESCRIPTION, YStr(<<"R","0">>),
         ITEMS, Obj2(<<"a">>, Obj1(ITEMS, Obj1(<<"b">>, YStr(<<"f">>))),
                     <<"g">>, Obj1(COMMAND, YStr(<<"f">>))))

BaseDoc3 == Obj1(ITEMS, YNull)

BaseDocs == {BaseDoc1, BaseDoc2, BaseDoc3}

\* Group nodes used as values inside an extending document
NestedAdd == Obj1(ITEMS, Obj1(<<"d">>, YStr(<<"f">>)))

NestedEdit ==
    Obj2(DESCRIPTION, YStr(<<"D","2">>),
         ITEMS, Obj3(<<"c">>, YNull, <<"b">>, YStr(<<"h">>), <<"d">>, YStr(<<"f">>)))

NestedClear == Obj2(CLEAR, YBool(TRUE), ITEMS, Obj1(<<"d">>, YStr(<<"f">>)))

\* Removes and adds, then names an invalid key code on a null entry
NestedBad ==
    Obj1(ITEMS, Obj3(<<"b">>, YNull, <<"d">>, YStr(<<"f">>), <<"!","!">>, YNull))

ExtValues ==
    { YStr(<<"f">>), YStr(<<"h"," ","d">>), YNull,
      NestedAdd, NestedEdit, NestedClear, NestedBad }

ExtKeys == { <<"g">>, <<"a">>, <<"s","-","a">>, <<"2">> }

\* Group nodes with null entries: an invalid key code on a null entry (first,
\* and after other entries), a removal of a key that may exist, a removal of
\* a key that does not, and entries after them
RemovalDocs ==
    { Obj1(ITEMS, Obj2(<<"!","!">>, YNull, <<"a">>, YStr(<<"f">>))),
      Obj1(ITEMS, Obj2(<<"x","-","a">>, YNull, <<"a">>, YStr(<<"f">>))),
      Obj1(ITEMS, Obj2(<<"a">>, YNull, <<"c","-">>, YNull)),
      Obj1(ITEMS, Obj3(<<"g">>, YNull, <<"z">>, YNull, <<"a">>, YStr(<<"h">>))),
      Obj1(ITEMS, Obj3(<<"a">>, YStr(<<"h">>), <<"s","-","a">>, YNull, <<"z">>, YStr(<<"f">>))),
      Obj1(ITEMS, Obj3(<<"z">>, YStr(<<"f">>), <<"g">>, YNull, <<"g","g">>, YNull)),
      Obj2(CLEAR, YBool(TRUE), ITEMS, Obj2(<<"g">>, YNull, <<"z">>, YStr(<<"f">>))) }

\* Most entries in the items object of an extending document
MaxEntries == 2

\* Sequences of at most n properties with distinct names
RECURSIVE EntriesUpTo(_, _, _)
EntriesUpTo(keys, values, n) ==
    IF n = 0 THEN {<<>>}
    ELSE LET shorter == EntriesUpTo(keys, values, n - 1)
         IN  shorter \cup
             { Append(e, [k |-> k, v |-> v]) :
                 e \in {x \in shorter : Len(x) = n - 1},
                 k \in keys, v \in values }

DistinctNames(e) == \A i, j \in 1..Len(e) : i # j => e[i].k # e[j].k

\* The items objects of the extending documents: the property sequences that are
\* the enumeration order of an object
ExtItems ==
    { YObj(e) : e \in { x \in EntriesUpTo(ExtKeys, ExtValues, MaxEntries) :
                          DistinctNames(x) /\ JSObject(x) = YObj(x) } }

ExtDocs ==
    { JSObject(extra \o <<[k |-> ITEMS, v |-> i]>>) :
        extra \in { <<>>,
                    <<[k |-> DESCRIPTION, v |-> YStr(<<"R">>)]>>,
                    <<[k |-> CLEAR, v |-> YBool(TRUE)]>> },
        i \in ExtItems }

\* Group nodes with a clear property that is false, and that is no boolean
ClearDocs ==
    { Obj2(CLEAR, YBool(FALSE), ITEMS, Obj2(<<"z">>, YStr(<<"f">>), <<"a">>, YStr(<<"h">>))),
      Obj2(CLEAR, YBool(FALSE), ITEMS, YNull),
      Obj2(CLEAR, YNull, ITEMS, Obj1(<<"z">>, YStr(<<"f">>))),
      Obj2(CLEAR, YStr(<<"t","r","u","e">>), ITEMS, Obj1(<<"z">>, YStr(<<"f">>))),
      Obj2(CLEAR, YNum(1), ITEMS, YObj(<<>>)),
      Obj2(CLEAR, YBool(TRUE), ITEMS, YNull) }

\* Group nodes whose description is empty, null, and no string
DescriptionDocs ==
    { Obj2(DESCRIPTION, YStr(<<>>), ITEMS, Obj1(<<"z">>, YStr(<<"f">>))),
      Obj2(DESCRIPTION, YNull, ITEMS, YNull),
      Obj2(DESCRIPTION, YBool(TRUE), ITEMS, YObj(<<>>)),
      Obj2(DESCRIPTION, YArr, ITEMS, Obj1(<<"z">>, YStr(<<"f">>))) }

ParseInit ==
    /\ KeyIdle
    /\ FileIdle
    /\ heap = <<>>
    /\ phase = "empty"
    /\ base = [id |-> 0]
    /\ last = [op |-> "none"]

\* The record of a call of keymapItemFromYAML
ParseCall(data, extend, before, r) ==
    [op |-> "parse", data |-> data, extend |-> extend, before |-> before,
     ok |-> r.ok, item |-> r.item, err |-> r.err]

\* keymapItemFromYAML(data, []) on a single node
ParseNode(data) ==
    /\ phase = "empty"
    /\ LET r == keymapItemFromYAML(heap, data, <<>>, Null)
       IN  /\ heap' = r.h
           /\ last' = ParseCall(data, Null, heap, r)
    /\ phase' = "done"
    /\ UNCHANGED <<base, keyVars, fileVars>>

\* keymapItemFromYAML(data, []) on a document that is extended afterwards
ParseBase(data) ==
    /\ phase = "empty"
    /\ LET r == keymapItemFromYAML(heap, data, <<>>, Null)
       IN  /\ heap' = r.h
           /\ last' = ParseCall(data, Null, heap, r)
           /\ base' = [id |-> r.item, doc |-> data]
    /\ phase' = "base"
    /\ UNCHANGED <<keyVars, fileVars>>

\* keymapItemFromYAML(data, [], extend) with the group parsed first as extend
ParseExtend(data) ==
    /\ phase = "base"
    /\ LET r == keymapItemFromYAML(heap, data, <<>>, base.id)
       IN  /\ heap' = r.h
           /\ last' = ParseCall(data, base.id, heap, r)
    /\ phase' = "extended"
    /\ UNCHANGED <<base, keyVars, fileVars>>

ParseNext ==
    \/ phase = "empty" /\ \E data \in LeafNodes \cup RemovalDocs \cup ClearDocs : ParseNode(data)
    \/ phase = "empty" /\ \E data \in BaseDocs : ParseBase(data)
    \/ phase = "base"
          /\ \E data \in ExtDocs \cup StringNodes \cup RemovalDocs \cup ClearDocs
                              \cup DescriptionDocs : ParseExtend(data)

SpecParse == ParseInit /\ [][ParseNext]_vars

-----------------------------------------------------------------------------
(* Claims about the parser                                                 *)

IsGroupNode(v) == v.t = "obj" /\ HasProp(v, ITEMS)

\* The properties of a group node's items (none when items is null)
ItemEntries(node) == IF Prop(node, ITEMS).t = "obj" THEN Prop(node, ITEMS).e ELSE <<>>

KeyOf(k) == parseKey(k).key

\* The tree keymapItemFromYAML builds from a node alone
ValueTree(v) ==
    LET r == keymapItemFromYAML(<<>>, v, <<>>, Null) IN Tree(r.h, r.item)

\* An extending call that returned a group
ExtendCall ==
    /\ last.op = "parse"
    /\ last.extend # Null
    /\ last.ok
    /\ IsGroupNode(last.data)

C2_NullMapped(entries, key) ==
    \E i \in 1..Len(entries) : entries[i].v = YNull /\ KeyEquals(KeyOf(entries[i].k), key)

C2_Valued(entries, key, i) == entries[i].v # YNull /\ KeyEquals(KeyOf(entries[i].k), key)

\* The first property that maps key to a value that is not null, 0 when none does
C2_ValueIndex(entries, key) ==
    IF \E i \in 1..Len(entries) : C2_Valued(entries, key, i)
    THEN CHOOSE i \in 1..Len(entries) :
            C2_Valued(entries, key, i) /\ \A j \in 1..(i - 1) : ~C2_Valued(entries, key, j)
    ELSE 0

\* The properties of E that name a key O does not have, in E's order
C2_NewIndices(entries, oldKeys) ==
    SelectSeq([i \in 1..Len(entries) |-> i],
              LAMBDA i : /\ C2_ValueIndex(entries, KeyOf(entries[i].k)) = i
                         /\ ~C2_NullMapped(entries, KeyOf(entries[i].k))
                         /\ \A j \in 1..Len(oldKeys) :
                                ~KeyEquals(oldKeys[j], KeyOf(entries[i].k)))

C2_Description(e, old) ==
    IF ~HasProp(e, DESCRIPTION) THEN old
    ELSE IF Prop(e, DESCRIPTION).t = "str" /\ Prop(e, DESCRIPTION).s # <<>>
         THEN Prop(e, DESCRIPTION) ELSE YNull

\* The tree the claim describes: O's children in order, replaced in place or
\* merged, the null-mapped ones absent, the new ones appended
RECURSIVE C2_Expected(_, _)
C2_Expected(ot, e) ==
    IF Prop(e, CLEAR) = YBool(TRUE) THEN ValueTree(e)
    ELSE LET entries == ItemEntries(e)
             keep == SelectSeq(ot.children, LAMBDA c : ~C2_NullMapped(entries, c.key))
             kept == [i \in 1..Len(keep) |->
                        LET vi == C2_ValueIndex(entries, keep[i].key)
                        IN  IF vi = 0 THEN keep[i]
                            ELSE [key |-> keep[i].key,
                                  item |-> IF keep[i].item.type = "group"
                                              /\ IsGroupNode(entries[vi].v)
                                           THEN C2_Expected(keep[i].item, entries[vi].v)
                                           ELSE ValueTree(entries[vi].v)]]
             newIdx == C2_NewIndices(entries, [j \in 1..Len(ot.children) |->
                                                    ot.children[j].key])
             new == [n \in 1..Len(newIdx) |->
                        [key |-> KeyOf(entries[newIdx[n]].k),
                         item |-> ValueTree(entries[newIdx[n]].v)]]
         IN  [type |-> "group",
              description |-> C2_Description(e, ot.description),
              children |-> kept \o new]

\* The merged document: O's properties in order, replaced in place or merged,
\* the null-mapped ones left out, the new ones appended. With asObject the
\* properties are in the order the document's object enumerates them.
RECURSIVE C2_MergeDoc(_, _, _)
C2_MergeDoc(o, e, asObject) ==
    IF Prop(e, CLEAR) = YBool(TRUE) THEN e
    ELSE LET oe == ItemEntries(o)
             ee == ItemEntries(e)
             keep == SelectSeq(oe, LAMBDA x : ~C2_NullMapped(ee, KeyOf(x.k)))
             kept == [i \in 1..Len(keep) |->
                        LET vi == C2_ValueIndex(ee, KeyOf(keep[i].k))
                        IN  IF vi = 0 THEN keep[i]
                            ELSE [k |-> keep[i].k,
                                  v |-> IF IsGroupNode(keep[i].v) /\ IsGroupNode(ee[vi].v)
                                        THEN C2_MergeDoc(keep[i].v, ee[vi].v, asObject)
                                        ELSE ee[vi].v]]
             newIdx == C2_NewIndices(ee, [j \in 1..Len(oe) |-> KeyOf(oe[j].k)])
             new == [n \in 1..Len(newIdx) |-> ee[newIdx[n]]]
             desc == IF HasProp(e, DESCRIPTION)
                     THEN <<[k |-> DESCRIPTION, v |-> Prop(e, DESCRIPTION)]>>
                     ELSE IF HasProp(o, DESCRIPTION)
                     THEN <<[k |-> DESCRIPTION, v |-> Prop(o, DESCRIPTION)]>>
                     ELSE <<>>
             items == IF asObject THEN JSObject(kept \o new) ELSE YObj(kept \o new)
         IN  YObj(desc \o <<[k |-> ITEMS, v |-> items]>>)

\* No items object of the document names the same key press twice
RECURSIVE C2_EachKeyOnce(_)
C2_EachKeyOnce(node) ==
    LET entries == ItemEntries(node)
    IN  /\ \A i, j \in 1..Len(entries) :
              i # j => ~KeyEquals(KeyOf(entries[i].k), KeyOf(entries[j].k))
        /\ \A i \in 1..Len(entries) :
              IsGroupNode(entries[i].v) => C2_EachKeyOnce(entries[i].v)

(* C2: extend merge. The group parsed from E onto O has O's children in    *)
(* their order, each key E maps to a value replaced in place (merged when  *)
(* both are groups and clear is not true), each key E maps to null absent, *)
(* new keys appended in E's order; and it equals the tree parsed from the  *)
(* merged document.                                                        *)
C2_ExtendMerge ==
    ExtendCall =>
        /\ Tree(heap, last.item) = C2_Expected(Tree(last.before, last.extend), last.data)
        /\ Tree(heap, last.item) = ValueTree(C2_MergeDoc(base.doc, last.data, TRUE))

(* C2 as amended: the same, for documents in which no items object names   *)
(* the same key press twice; the equality with the tree parsed from the    *)
(* merged document for merged documents whose items enumerate in the       *)
(* listed order.                                                           *)
C2_ExtendMergeAmended ==
    (ExtendCall /\ C2_EachKeyOnce(base.doc) /\ C2_EachKeyOnce(last.data)) =>
        /\ Tree(heap, last.item) = C2_Expected(Tree(last.before, last.extend), last.data)
        /\ (C2_MergeDoc(base.doc, last.data, TRUE) = C2_MergeDoc(base.doc, last.data, FALSE)
              => Tree(heap, last.item) = ValueTree(C2_MergeDoc(base.doc, last.data, TRUE)))

\* A nested group is edited (one child replaced, one removed, one added), the
\* root gets a description, and a new key is appended
C2_Witness ==
    /\ ExtendCall
    /\ base.doc = BaseDoc1
    /\ C2_EachKeyOnce(last.data)
    /\ C2_MergeDoc(base.doc, last.data, TRUE) = C2_MergeDoc(base.doc, last.data, FALSE)
    /\ ItemEntries(last.data) =
          <<[k |-> <<"g">>, v |-> NestedEdit], [k |-> <<"s","-","a">>, v |-> YNull]>>

(* C3: a parse call never mutates its extendGroup: after the call, returned*)
(* or thrown, every object of the extendGroup's tree is as it was before.  *)
C3_ExtendNotMutated ==
    (last.op = "parse" /\ last.extend # Null) =>
        \A id \in Reach(last.before, last.extend) : heap[id] = last.before[id]

\* The call replaced and removed entries of a nested group and set descriptions
C3_Witness ==
    /\ ExtendCall
    /\ base.doc = BaseDoc1
    /\ HasProp(last.data, DESCRIPTION)
    /\ \E i \in 1..Len(ItemEntries(last.data)) : ItemEntries(last.data)[i].v = NestedEdit
    /\ Tree(heap, last.item) # Tree(heap, last.extend)

(* C6: the parser never produces a Command with an empty command id: a     *)
(* string that is empty after trimming is rejected with "Empty string not  *)
(* allowed", and an empty command property is rejected.                    *)
C6_NoEmptyCommandId ==
    /\ \A id \in 1..Len(heap) :
          heap[id].type = "command" => heap[id].command_id # <<>>
    /\ (last.op = "parse" /\ last.data.t = "str" /\ Trim(last.data.s) = <<>>)
          => (~last.ok /\ last.err.msg = "Empty string not allowed")
    /\ (last.op = "parse" /\ last.data.t = "obj" /\ Prop(last.data, COMMAND) = YStr(<<>>))
          => ~last.ok

\* Which of the three properties an object node has
C10_Present(data) == {name \in {ITEMS, COMMAND, FILE} : HasProp(data, name)}

(* C10: for an object node, keymapItemFromYAML succeeds only if exactly    *)
(* one of items, command, file is present, and then returns a Group, a     *)
(* Command or a File; with none or several it throws a KeymapParseError    *)
(* and returns no item.                                                    *)
C10_ExactlyOne ==
    (last.op = "parse" /\ last.data.t = "obj") =>
        /\ last.ok =>
              /\ Cardinality(C10_Present(last.data)) = 1
              /\ heap[last.item].type =
                    (IF HasProp(last.data, ITEMS) THEN "group"
                     ELSE IF HasProp(last.data, COMMAND) THEN "command" ELSE "file")
        /\ Cardinality(C10_Present(last.data)) # 1 =>
              /\ ~last.ok
              /\ last.err.kind = "KeymapParseError"
              /\ last.item = Null

\* A node with none of the three properties was rejected
C10_Witness ==
    /\ last.op = "parse"
    /\ last.data.t = "obj"
    /\ C10_Present(last.data) = {}
    /\ HasProp(last.data, DESCRIPTION)
    /\ ~last.ok

\* The children the working group of a call starts with
C16_StartChildren ==
    IF last.extend # Null /\ Prop(last.data, CLEAR) # YBool(TRUE)
    THEN last.before[last.extend].children
    ELSE <<>>

\* The entries of the node's items that name a key press
C16_Naming(entries, key) ==
    {i \in 1..Len(entries) : parseKey(entries[i].k).success
                                /\ KeyEquals(parseKey(entries[i].k).key, key)}

C16_Max(S) == CHOOSE i \in S : \A j \in S : j <= i

\* Whether the group has a child for key once every entry has been processed:
\* the last entry that names the key decides, a null entry removing the child
C16_Present(entries, start, key) ==
    IF C16_Naming(entries, key) = {}
    THEN \E i \in 1..Len(start) : KeyEquals(start[i].key, key)
    ELSE entries[C16_Max(C16_Naming(entries, key))].v # YNull

C16_Keys(entries, start) ==
    {start[i].key : i \in 1..Len(start)}
        \cup {parseKey(entries[i].k).key :
                 i \in {j \in 1..Len(entries) : parseKey(entries[j].k).success}}

(* C16: in the group builder an items entry whose value is null is a        *)
(* removal marker: its key string is parsed first, so an invalid key code   *)
(* is a parse error even when the value is null; the child with that key is *)
(* removed from the working group (nothing happens when there is none), no  *)
(* child is created for it, and the next entries are processed.             *)
C16_NullRemoves ==
    (last.op = "parse" /\ IsGroupNode(last.data)) =>
        LET entries == ItemEntries(last.data)
            start == C16_StartChildren
        IN  /\ (\E i \in 1..Len(entries) : ~parseKey(entries[i].k).success) =>
                  /\ ~last.ok
                  /\ last.err.kind = "KeymapParseError"
            /\ (/\ Len(entries) > 0
                /\ ~parseKey(entries[1].k).success
                /\ entries[1].v = YNull
                /\ ~HasProp(last.data, CLEAR) \/ Prop(last.data, CLEAR).t = "bool") =>
                  /\ ~last.ok
                  /\ last.err.msg = parseKey(entries[1].k).error
                  /\ last.err.arg = parseKey(entries[1].k).arg
            /\ last.ok =>
                  /\ \A key \in C16_Keys(entries, start) :
                        /\ getChild(heap, last.item, key) # Null
                              <=> C16_Present(entries, start, key)
                        /\ (C16_Naming(entries, key) = {} /\ last.extend # Null) =>
                              getChild(heap, last.item, key)
                                 = getChild(last.before, last.extend, key)
                  /\ Len(heap[last.item].children) =
                        Cardinality({key \in C16_Keys(entries, start) :
                                        C16_Present(entries, start, key)})

\* An existing child was removed, a removal of a key without a child changed
\* nothing, and the entry after them replaced a child
C16_Witness ==
    /\ ExtendCall
    /\ base.doc = BaseDoc1
    /\ ItemEntries(last.data) =
          <<[k |-> <<"g">>, v |-> YNull], [k |-> <<"z">>, v |-> YNull],
            [k |-> <<"a">>, v |-> YStr(<<"h">>)]>>
    /\ Len(last.before[last.extend].children) = 3
    /\ Len(heap[last.item].children) = 2
    /\ heap[getChild(heap, last.item, KeyPress(<<"a">>, NoMods))].command_id = <<"h">>

\* Whether some entry of the node's items names the key press
C17_Named(entries, key) ==
    \E i \in 1..Len(entries) :
        parseKey(entries[i].k).success /\ KeyEquals(parseKey(entries[i].k).key, key)

(* C17: in the group builder, when clear is true the resulting group holds  *)
(* only the children defined by the node's own items and none inherited     *)
(* from the extendGroup; when clear is absent or false and an extendGroup   *)
(* is supplied, the group starts from the extendGroup's children; a clear   *)
(* value that is present but not a boolean is rejected with a parse error.  *)
C17_Clear ==
    (last.op = "parse" /\ IsGroupNode(last.data) /\ C10_Present(last.data) = {ITEMS}) =>
        LET clear == Prop(last.data, CLEAR)
            entries == ItemEntries(last.data)
        IN  /\ (HasProp(last.data, CLEAR) /\ clear.t # "bool") =>
                  /\ ~last.ok
                  /\ last.err.kind = "KeymapParseError"
                  /\ Prop(last.data, ITEMS).t \in {"obj", "null"} =>
                        /\ last.err.msg = "Expected group.clear to be a bool"
                        /\ last.err.data = clear
            /\ (last.ok /\ clear = YBool(TRUE)) =>
                  /\ Tree(heap, last.item) = ValueTree(last.data)
                  /\ \A i \in 1..Len(heap[last.item].children) :
                        heap[last.item].children[i].item > Len(last.before)
            /\ (last.ok /\ clear # YBool(TRUE) /\ last.extend # Null) =>
                  LET old == last.before[last.extend].children
                      new == heap[last.item].children
                  IN  /\ SelectSeq(new, LAMBDA c : ~C17_Named(entries, c.key))
                            = SelectSeq(old, LAMBDA c : ~C17_Named(entries, c.key))
                      /\ entries = <<>> => new = old
                      /\ \A i \in 1..Len(old) :
                            C16_Present(entries, old, old[i].key) =>
                                \E j \in 1..Len(new) : KeyEquals(new[j].key, old[i].key)

\* A document with clear: true was parsed onto a group with three children
\* and the result has only the one child its own items define
C17_Witness ==
    /\ ExtendCall
    /\ base.doc = BaseDoc1
    /\ Prop(last.data, CLEAR) = YBool(TRUE)
    /\ Len(last.before[last.extend].children) = 3
    /\ Len(ItemEntries(last.data)) = 1
    /\ ItemEntries(last.data)[1].v # YNull
    /\ Len(heap[last.item].children) = 1

\* The positions of the whitespace characters of a string
C18_WhiteSpaceAt(t) == {i \in 1..Len(t) : t[i] \in WhiteSpace}

C18_Min(S) == CHOOSE i \in S : \A j \in S : i <= j

\* The command the short form describes: the id is the trimmed string up to
\* its first run of whitespace, the description what follows the run, trimmed
C18_Expected(s) ==
    LET t == Trim(s)
        ws == C18_WhiteSpaceAt(t)
        rest == IF ws = {} THEN <<>> ELSE Trim(SubSeq(t, C18_Min(ws), Len(t)))
    IN  KeymapCommand(IF ws = {} THEN t ELSE SubSeq(t, 1, C18_Min(ws) - 1),
                      IF rest = <<>> THEN YNull ELSE YStr(rest))

(* C18: for a non-empty string node the command id is the text of the       *)
(* trimmed string before its first run of whitespace, so the id never holds *)
(* whitespace, and the description is the remainder after that run,         *)
(* trimmed, or null when there is no remainder or it is empty.              *)
C18_ShortForm ==
    (last.op = "parse" /\ last.data.t = "str" /\ last.data.s # <<>>) =>
        /\ last.ok
        /\ heap[last.item] = C18_Expected(last.data.s)
        /\ C18_WhiteSpaceAt(heap[last.item].command_id) = {}
        /\ heap[last.item].description # YStr(<<>>)

(* C19: if a description key is present on an object node its value must   *)
(* be a string or null, otherwise a KeymapParseError is thrown; a null or   *)
(* empty-string description gives the item no description (null, never the  *)
(* empty string); the rule is the same for Group, Command and File items.   *)
C19_Description ==
    (last.op = "parse" /\ last.data.t = "obj" /\ HasProp(last.data, DESCRIPTION)) =>
        LET d == Prop(last.data, DESCRIPTION)
        IN  /\ d.t \notin {"str", "null"} =>
                  /\ ~last.ok
                  /\ last.err.kind = "KeymapParseError"
                  /\ last.item = Null
            /\ last.ok =>
                  /\ d.t \in {"str", "null"}
                  /\ heap[last.item].description =
                        (IF d.t = "str" /\ d.s # <<>> THEN d ELSE YNull)
            /\ (d.t \notin {"str", "null"}
                   /\ keymapItemFromYAML(last.before,
                          YObj(SelectSeq(last.data.e, LAMBDA x : x.k # DESCRIPTION)),
                          <<>>, last.extend).ok) =>
                  /\ last.err.msg = "Expected string or null"
                  /\ last.err.data = d
                  /\ last.err.path = <<DESCRIPTION>>

\* A group parsed onto a group with a description got an empty description
\* and has none now
C19_Witness ==
    /\ ExtendCall
    /\ heap[last.extend].description # YNull
    /\ Prop(last.data, DESCRIPTION) = YStr(<<>>)
    /\ heap[last.item].type = "group"
    /\ heap[last.item].description = YNull

\* The raw value a path leads to in a document; undefined when there is none
RECURSIVE C23_ValueAt(_, _)
C23_ValueAt(data, path) ==
    IF path = <<>> THEN data
    ELSE IF data.t # "obj" THEN YUndefined
    ELSE C23_ValueAt(Prop(data, Head(path)), Tail(path))

\* The property whose value a message complains about
C23_Property(msg) ==
    CASE msg = "Expected string" -> {COMMAND, FILE}
      [] msg = "Command ID cannot be empty" -> {COMMAND}
      [] msg = "File name cannot be empty" -> {FILE}
      [] msg = "Expected group.items to be an object" -> {ITEMS}
      [] msg = "Expected group.clear to be a bool" -> {CLEAR}
      [] msg = "Expected string or null" -> {DESCRIPTION}
      [] OTHER -> {}

(* C23: every KeymapParseError thrown for a schema violation carries the    *)
(* offending raw value as its data, together with the path to it: the data  *)
(* is the value the path leads to in the document, and for a bad file,      *)
(* items, command, description or clear value the path ends at that         *)
(* property and the data is that property's value.                          *)
C23_OffendingValue ==
    (last.op = "parse" /\ ~last.ok /\ last.err.kind = "KeymapParseError") =>
        /\ ~last.err.pathNull
        /\ last.err.data = C23_ValueAt(last.data, last.err.path)
        /\ C23_Property(last.err.msg) # {} =>
               /\ last.err.path # <<>>
               /\ last.err.path[Len(last.err.path)] \in C23_Property(last.err.msg)

-----------------------------------------------------------------------------
(* The tree machine: groups and commands are created and the operations of *)
(* KeymapGroup are called on them, as the tests and the parser do.         *)

\* Most objects allocated
MaxHeap == 3

\* Longest key sequence looked up
MaxKeys == 2

KeyA == KeyPress(<<"a">>, NoMods)
KeyCtrlA == KeyPress(<<"a">>, [NoMods EXCEPT !.ctrl = TRUE])

TreeKeys == {KeyA, KeyCtrlA}

RECURSIVE KeySeqsUpTo(_)
KeySeqsUpTo(n) ==
    IF n = 0 THEN {<<>>}
    ELSE LET shorter == KeySeqsUpTo(n - 1)
         IN  shorter \cup {Append(s, k) : s \in {t \in shorter : Len(t) = n - 1}, k \in TreeKeys}

\* Documents whose items name one key press twice: through the aliases
\* 'spc' and 'space', and through a shift that is dropped
AliasDoc == Obj1(ITEMS, Obj2(<<"s","p","c">>, YStr(<<"f">>), <<"s","p","a","c","e">>, YStr(<<"f">>)))
ShiftDoc == Obj1(ITEMS, Obj2(<<"a">>, YStr(<<"f">>), <<"s","-","a">>, YStr(<<"f">>)))

\* The keymap of the tests (makeBasicKeymap): a subgroup that holds a command,
\* followed by a command
BasicDoc ==
    Obj1(ITEMS, Obj2(<<"a">>, Obj1(ITEMS, Obj1(<<"b">>, YStr(<<"f">>))),
                     <<"c">>, YStr(<<"g">>)))

\* A keymap with a file and a command, and one whose command id is a name
\* that objects inherit
FileDoc == Obj1(ITEMS, Obj2(<<"a">>, Obj1(FILE, YStr(<<"n">>)), <<"b">>, YStr(<<"f">>)))
InheritedNameDoc == Obj1(ITEMS, Obj1(<<"a">>, YStr(CONSTRUCTOR)))

TreeDocs == {AliasDoc, ShiftDoc, BasicDoc, FileDoc, InheritedNameDoc}

Groups(h) == {id \in 1..Len(h) : h[id].type = "group"}

Commands(h) == {id \in 1..Len(h) : h[id].type = "command"}

TreeInit ==
    /\ KeyIdle
    /\ FileIdle
    /\ heap = <<KeymapGroup(YNull)>>
    /\ phase = "tree"
    /\ base = [id |-> 0]
    /\ last = [op |-> "none"]

\* g.setChild(key, new KeymapGroup())
AddGroup(g, key) ==
    /\ phase = "tree"
    /\ Len(heap) < MaxHeap
    /\ LET a == Alloc(heap, KeymapGroup(YNull))
           r == setChild(a.h, g, key, a.id)
       IN  /\ heap' = r.h
           /\ last' = [op |-> "setChild", before |-> heap, group |-> g, key |-> key,
                       arg |-> a.id, item |-> r.rval]
    /\ UNCHANGED <<phase, base, keyVars, fileVars>>

\* g.setChild(key, new KeymapCommand(command_id))
AddCommand(g, key, command_id) ==
    /\ phase = "tree"
    /\ Len(heap) < MaxHeap
    /\ LET a == Alloc(heap, KeymapCommand(command_id, YNull))
           r == setChild(a.h, g, key, a.id)
       IN  /\ heap' = r.h
           /\ last' = [op |-> "setChild", before |-> heap, group |-> g, key |-> key,
                       arg |-> a.id, item |-> r.rval]
    /\ UNCHANGED <<phase, base, keyVars, fileVars>>

\* g.setChild(key, item) with a command made earlier, on a group that has a
\* child for the key
SetChild(g, key, item) ==
    /\ phase = "tree"
    /\ Len(heap) <= MaxHeap
    /\ getChild(heap, g, key) \notin {Null, item}
    /\ LET r == setChild(heap, g, key, item)
       IN  /\ heap' = r.h
           /\ last' = [op |-> "setChild", before |-> heap, group |-> g, key |-> key,
                       arg |-> item, item |-> r.rval]
    /\ UNCHANGED <<phase, base, keyVars, fileVars>>

\* g.removeChild(key)
RemoveChild(g, key) ==
    /\ phase = "tree"
    /\ LET r == removeChild(heap, g, key)
       IN  /\ heap' = r.h
           /\ last' = [op |-> "removeChild", before |-> heap, group |-> g, key |-> key,
                       item |-> r.rval]
    /\ UNCHANGED <<phase, base, keyVars, fileVars>>

\* g.copy()
Copy(g) ==
    /\ phase = "tree"
    /\ Len(heap) < MaxHeap
    /\ LET r == copy(heap, g)
       IN  /\ heap' = r.h
           /\ last' = [op |-> "copy", before |-> heap, group |-> g, item |-> r.id]
    /\ UNCHANGED <<phase, base, keyVars, fileVars>>

\* g.find(keys, strict); find changes nothing, so a lookup right after a
\* lookup reaches no state that the first one does not
Find(g, keys, strict) ==
    /\ phase = "tree"
    /\ last.op # "find"
    /\ last' = [op |-> "find", before |-> heap, group |-> g, keys |-> keys,
                strict |-> strict, item |-> find(heap, g, keys, strict)]
    /\ UNCHANGED <<heap, phase, base, keyVars, fileVars>>

\* g.walk(func) with a visitor that records its calls; walk changes nothing
Walk(g) ==
    /\ phase = "tree"
    /\ last.op # "walk"
    /\ last' = [op |-> "walk", before |-> heap, group |-> g, calls |-> walk(heap, g)]
    /\ UNCHANGED <<heap, phase, base, keyVars, fileVars>>

\* g.assignedCommands(); it changes nothing
AssignedCommands(g) ==
    /\ phase = "tree"
    /\ last.op # "assignedCommands"
    /\ LET r == assignedCommands(heap, g)
       IN  last' = [op |-> "assignedCommands", before |-> heap, group |-> g,
                    ok |-> r.ok, map |-> r.map, err |-> r.err]
    /\ UNCHANGED <<heap, phase, base, keyVars, fileVars>>

\* keymapItemFromYAML(data, [], extend) on a group of the tree built so far,
\* or without one
ParseOnto(data, extend) ==
    /\ phase = "tree"
    /\ Len(heap) < MaxHeap
    /\ LET r == keymapItemFromYAML(heap, data, <<>>, extend)
       IN  /\ heap' = r.h
           /\ last' = ParseCall(data, extend, heap, r)
    /\ UNCHANGED <<phase, base, keyVars, fileVars>>

\* find, walk and assignedCommands change nothing: whatever can follow one of
\* them can follow the state it was made in, so the machine stops after one
TreeQuiet == last.op \notin {"find", "walk", "assignedCommands"}

TreeNext ==
    \/ TreeQuiet /\ \E g \in Groups(heap), key \in TreeKeys : AddGroup(g, key)
    \/ TreeQuiet /\ \E g \in Groups(heap), key \in TreeKeys : AddCommand(g, key, <<"f">>)
    \/ TreeQuiet /\ \E g \in Groups(heap), key \in TreeKeys, item \in Commands(heap) :
          SetChild(g, key, item)
    \/ TreeQuiet /\ \E g \in Groups(heap), key \in TreeKeys : RemoveChild(g, key)
    \/ TreeQuiet /\ \E g \in Groups(heap) : Copy(g)
    \/ TreeQuiet /\ \E g \in Groups(heap), keys \in KeySeqsUpTo(MaxKeys), strict \in BOOLEAN :
          Find(g, keys, strict)
    \/ TreeQuiet /\ \E g \in Groups(heap) : Walk(g)
    \/ TreeQuiet /\ \E g \in Groups(heap) : AssignedCommands(g)
    \/ TreeQuiet /\ \E data \in TreeDocs, extend \in Groups(heap) \cup {Null} :
          ParseOnto(data, extend)

SpecTree == TreeInit /\ [][TreeNext]_vars

-----------------------------------------------------------------------------
(* Claims about the tree operations *)

\* The children of group id whose key equals key
C4_ChildrenFor(h, id, key) ==
    {h[id].children[i].item : i \in {j \in 1..Len(h[id].children) : KeyEquals(h[id].children[j].key, key)}}

\* The item selected after the first j keys, Null when the walk cannot get there
RECURSIVE C4_Selected(_, _, _, _)
C4_Selected(h, g, keys, j) ==
    IF j = 0 THEN g
    ELSE LET prev == C4_Selected(h, g, keys, j - 1)
         IN  IF IsGroup(h, prev) /\ C4_ChildrenFor(h, prev, keys[j]) # {}
             THEN CHOOSE c \in C4_ChildrenFor(h, prev, keys[j]) : TRUE
             ELSE Null

\* What the contract of find says the result is
C4_Expected(h, g, keys, strict) ==
    LET n == CHOOSE j \in 0..Len(keys) :
                 /\ C4_Selected(h, g, keys, j) # Null
                 /\ \A m \in (j + 1)..Len(keys) : C4_Selected(h, g, keys, m) = Null
        current == C4_Selected(h, g, keys, n)
    IN  IF n = Len(keys) THEN current
        ELSE IF IsGroup(h, current) THEN Null
        ELSE IF strict THEN Null
        ELSE current

\* C4: find(keys, strict) returns the group itself for the empty sequence,
\* null as soon as the current group has no child for the next key, a
\* non-group item met while keys remain when strict is false and null when
\* strict is true, and otherwise the item selected after the last key.
C4_FindContract ==
    last.op = "find" =>
        last.item = C4_Expected(last.before, last.group, last.keys, last.strict)

\* A lenient lookup that stopped at a command with a key left over, and a
\* strict one that answered null there
C4_Witness ==
    /\ last.op = "find"
    /\ Len(last.keys) = 2
    /\ last.item # Null
    /\ ~IsGroup(heap, last.item)
    /\ getChild(heap, last.group, last.keys[1]) = last.item
    /\ ~last.strict
    /\ find(heap, last.group, last.keys, TRUE) = Null

\* C5: in every group reachable by setChild, removeChild, copy and parser
\* operations, no two entries of children have equal keys.
C5_NoDuplicateKeys ==
    \A g \in Groups(heap) :
        \A i, j \in 1..Len(heap[g].children) :
            i # j => ~KeyEquals(heap[g].children[i].key, heap[g].children[j].key)

\* A document naming one key through two aliases was parsed onto a group that
\* already had a child replaced by setChild
C5_Witness ==
    /\ last.op = "parse"
    /\ last.data = AliasDoc
    /\ last.ok
    /\ last.extend # Null
    /\ Len(heap[last.extend].children) > 0
    /\ Len(heap[last.item].children) = Len(heap[last.extend].children) + 1

\* The positions of the children of a list whose key equals key
C14_Positions(children, key) ==
    {i \in 1..Len(children) : KeyEquals(children[i].key, key)}

\* C14: setChild(key, item) on a group that has a child with an equal key
\* returns the previous item, puts the new item at the same index and leaves
\* the number and order of children unchanged; with no such child it appends
\* the pair at the end and returns null; in both cases getChild(key) then
\* returns the new item and getChild of every other key is unchanged.
C14_SetChild ==
    last.op = "setChild" =>
        LET old == last.before[last.group].children
            new == heap[last.group].children
            at == C14_Positions(old, last.key)
        IN  /\ at # {} =>
                  /\ \A i \in at : last.item = old[i].item
                  /\ Len(new) = Len(old)
                  /\ \A i \in 1..Len(old) :
                        IF i \in at
                        THEN new[i].item = last.arg /\ KeyEquals(new[i].key, last.key)
                        ELSE new[i] = old[i]
            /\ at = {} =>
                  /\ last.item = Null
                  /\ new = Append(old, [key |-> last.key, item |-> last.arg])
            /\ getChild(heap, last.group, last.key) = last.arg
            /\ \A k \in TreeKeys :
                  ~KeyEquals(k, last.key) =>
                      getChild(heap, last.group, k) = getChild(last.before, last.group, k)

\* The first of two children was replaced by another item
C14_Witness ==
    /\ last.op = "setChild"
    /\ Len(last.before[last.group].children) = 2
    /\ KeyEquals(last.before[last.group].children[1].key, last.key)
    /\ last.item # Null
    /\ last.item # last.arg
    /\ heap[last.group].children[1].item = last.arg

\* C15: removeChild(key) on a group with no child with an equal key returns
\* null and leaves the children list unchanged; with such a child it returns
\* that item, removes exactly that entry and keeps the relative order of the
\* remaining children, and getChild(key) afterwards returns null.
C15_RemoveChild ==
    last.op = "removeChild" =>
        LET old == last.before[last.group].children
            new == heap[last.group].children
            at == C14_Positions(old, last.key)
        IN  /\ at = {} =>
                  /\ last.item = Null
                  /\ new = old
                  /\ heap = last.before
            /\ at # {} =>
                  /\ \A i \in at : last.item = old[i].item
                  /\ new = SelectSeq(old, LAMBDA c : ~KeyEquals(c.key, last.key))
                  /\ Len(new) = Len(old) - 1
            /\ getChild(heap, last.group, last.key) = Null

\* The first of two children was removed and the second is now the first
C15_Witness ==
    /\ last.op = "removeChild"
    /\ Len(last.before[last.group].children) = 2
    /\ last.item = last.before[last.group].children[1].item
    /\ heap[last.group].children = <<last.before[last.group].children[2]>>

\* The keys of the children of the groups of h
C24_AllKeys(h) == UNION {{h[g].children[i].key : i \in 1..Len(h[g].children)} : g \in Groups(h)}

\* The sequences of at most n keys of K
RECURSIVE C24_SeqsUpTo(_, _)
C24_SeqsUpTo(K, n) ==
    IF n = 0 THEN {<<>>}
    ELSE LET shorter == C24_SeqsUpTo(K, n - 1)
         IN  shorter \cup {Append(q, k) : q \in {t \in shorter : Len(t) = n - 1}, k \in K}

\* The key paths that lead from group g to an item
C24_Paths(h, g) ==
    {q \in C24_SeqsUpTo(C24_AllKeys(h), Cardinality(Groups(h))) : find(h, g, q, TRUE) # Null}

C24_IsProperPrefix(q, r) == Len(q) < Len(r) /\ SubSeq(r, 1, Len(q)) = q

\* The place of the child for key among the children of group id
C24_Place(h, id, key) ==
    CHOOSE i \in 1..Len(h[id].children) : KeyEquals(h[id].children[i].key, key)

\* Path q comes before path r in pre-order: q leads to an ancestor of r's
\* item, or where the paths part q takes the earlier child
C24_Before(h, g, q, r) ==
    \/ C24_IsProperPrefix(q, r)
    \/ \E k \in 1..Len(q) :
          /\ k <= Len(r)
          /\ SubSeq(q, 1, k - 1) = SubSeq(r, 1, k - 1)
          /\ ~KeyEquals(q[k], r[k])
          /\ LET parent == find(h, g, SubSeq(q, 1, k - 1), TRUE)
             IN  C24_Place(h, parent, q[k]) < C24_Place(h, parent, r[k])

(* C24: walk(visitor) is a depth-first pre-order traversal: the first call  *)
(* is for the group itself with the empty key path; every call receives the *)
(* keys that lead from the group to the item; every key path that leads to  *)
(* an item is visited exactly once; a group is visited before the items     *)
(* below it, and the whole subtree of a child before the next sibling, in   *)
(* child order.                                                             *)
C24_WalkPreOrder ==
    last.op = "walk" =>
        LET calls == last.calls
            g == last.group
        IN  /\ calls # <<>>
            /\ calls[1] = [item |-> g, keys |-> <<>>]
            /\ \A i \in 1..Len(calls) : find(heap, g, calls[i].keys, TRUE) = calls[i].item
            /\ \A q \in C24_Paths(heap, g) :
                  Cardinality({i \in 1..Len(calls) : calls[i].keys = q}) = 1
            /\ \A i, j \in 1..Len(calls) :
                  i < j => C24_Before(heap, g, calls[i].keys, calls[j].keys)

\* A walk over a group with a subgroup that holds an item and is followed by
\* a sibling
C24_Witness ==
    /\ last.op = "walk"
    /\ Len(last.calls) >= 4
    /\ Len(last.calls[3].keys) = 2
    /\ Len(last.calls[4].keys) = 1

\* The key paths from group g that lead strictly to a Command with this id
C25_PathsOf(h, g, id) ==
    {q \in C24_Paths(h, g) :
        LET item == find(h, g, q, TRUE)
        IN  h[item].type = "command" /\ h[item].command_id = id}

\* The command ids of the heap
C25_Ids(h) == {h[c].command_id : c \in Commands(h)}

(* C25: assignedCommands() returns, for each command id, exactly the key    *)
(* paths p for which find(p, strict = true) is a Command with that id:      *)
(* every such path is listed exactly once, a command reachable by several   *)
(* paths has all of them, and there is no entry for an id without such a    *)
(* path, so none for the paths that lead to a Group or a File.              *)
C25_AssignedCommands ==
    last.op = "assignedCommands" =>
        /\ last.ok
        /\ \A k, l \in 1..Len(last.map) : last.map[k].id = last.map[l].id => k = l
        /\ \A k \in 1..Len(last.map) :
              LET e == last.map[k]
              IN  /\ C25_PathsOf(heap, last.group, e.id) # {}
                  /\ \A q \in C25_PathsOf(heap, last.group, e.id) :
                        Cardinality({i \in 1..Len(e.paths) : e.paths[i] = q}) = 1
                  /\ \A i \in 1..Len(e.paths) : e.paths[i] \in C25_PathsOf(heap, last.group, e.id)
        /\ \A id \in C25_Ids(heap) :
              C25_PathsOf(heap, last.group, id) # {} => HasOwn(last.map, id)

\* The prefixes of a key sequence, the empty one and the sequence itself included
C29_Prefixes(keys) == {SubSeq(keys, 1, n) : n \in 0..Len(keys)}

\* The prefixes that resolve strictly and either are the whole sequence or
\* end at an item that is not a group
C29_Resolving(h, g, keys) ==
    {p \in C29_Prefixes(keys) :
        /\ find(h, g, p, TRUE) # Null
        /\ p = keys \/ ~IsGroup(h, find(h, g, p, TRUE))}

C29_Shortest(S) == CHOOSE p \in S : \A q \in S : Len(p) <= Len(q)

(* C29: strict and lenient lookup agree wherever strict lookup succeeds,    *)
(* and lenient lookup is prefix-closed: for the group and the key sequence  *)
(* of every lookup, a non-null find(keys, true) is also the result of       *)
(* find(keys, false); find(keys, false) is non-null exactly when keys or a  *)
(* proper prefix that ends at a non-group item resolves strictly, and is    *)
(* the item of the shortest such prefix; and when find(keys, false) is      *)
(* non-null so is find(p, false) for every prefix p of keys.                *)
C29_StrictAndLenient ==
    last.op = "find" =>
        LET h == last.before
            g == last.group
            keys == last.keys
            lenient == find(h, g, keys, FALSE)
            strict == find(h, g, keys, TRUE)
            S == C29_Resolving(h, g, keys)
        IN  /\ last.item = (IF last.strict THEN strict ELSE lenient)
            /\ strict # Null => lenient = strict
            /\ (lenient # Null) <=> (S # {})
            /\ lenient # Null => lenient = find(h, g, C29_Shortest(S), TRUE)
            /\ lenient # Null => \A p \in C29_Prefixes(keys) : find(h, g, p, FALSE) # Null

\* A strict lookup of two keys answered null where the first key alone
\* resolves to a command, which the lenient lookup of both keys returns
C29_Witness ==
    /\ last.op = "find"
    /\ last.strict
    /\ Len(last.keys) = 2
    /\ last.item = Null
    /\ find(heap, last.group, last.keys, FALSE) # Null
    /\ find(heap, last.group, last.keys, FALSE) = find(heap, last.group, <<last.keys[1]>>, TRUE)

-----------------------------------------------------------------------------
(* Keymap files: YAML text, and the fenced code block of a Markdown file *)

\* The backtick character (TLA+ strings cannot hold one)
Backtick == "BACKTICK"

\* The YAML documents the machines write into keymap files, as text
YamlUser == <<"i","t","e","m","s",":"," ","{","a",":"," ","f","}">>
YamlPartial == <<"i","t","e","m","s",":"," ","{","a",":"," ","f",","," ","b",":"," ","3","}">>
YamlNoItems == <<"a",":"," ","f">>
YamlBroken == <<"i","t","e","m","s",":"," ","{">>
YamlDefault == <<"i","t","e","m","s",":"," ","{","d",":"," ","g","}">>
YamlOverride == <<"i","t","e","m","s",":"," ","{","d",":"," ","f","}">>

\* What the YAML library makes of them; YamlBroken is not YAML
YamlDocuments ==
    { [text |-> YamlUser, data |-> Obj1(ITEMS, Obj1(<<"a">>, YStr(<<"f">>)))],
      [text |-> YamlPartial,
       data |-> Obj1(ITEMS, Obj2(<<"a">>, YStr(<<"f">>), <<"b">>, YNum(3)))],
      [text |-> YamlNoItems, data |-> Obj1(<<"a">>, YStr(<<"f">>))],
      [text |-> YamlDefault, data |-> Obj1(ITEMS, Obj1(<<"d">>, YStr(<<"g">>)))],
      [text |-> YamlOverride, data |-> Obj1(ITEMS, Obj1(<<"d">>, YStr(<<"f">>)))] }

\* Line folding of a multi-line plain scalar: one line break reads as a space,
\* n + 1 line breaks read as n line breaks
RECURSIVE FoldScalar(_)
FoldScalar(s) ==
    IF s = <<>> THEN <<>>
    ELSE IF s[1] # "\n" THEN <<s[1]>> \o FoldScalar(Tail(s))
    ELSE LET rest == TrimStart(s)
             breaks == Len(s) - Len(rest)
         IN  (IF breaks = 1 THEN <<" ">> ELSE [i \in 1..(breaks - 1) |-> "\n"])
             \o FoldScalar(rest)

\* The error the YAML decoder throws
YAMLParseError == [name |-> "YAMLParseError"]

\* What a call of the YAML decoder comes to: the data it returns, or its error
Decoded(data) == [ok |-> TRUE, data |-> data, error |-> NoCause]

DecoderThrew == [ok |-> FALSE, data |-> YNull, error |-> YAMLParseError]

\* parseYaml of the Obsidian API, for the texts the machines write: the
\* documents above, the empty document (null), and other text, which is a
\* plain scalar when it is made of letters, backticks and line breaks and does
\* not start with a backtick (a reserved indicator), and is refused otherwise
YamlOf(t) ==
    IF t = <<>> THEN Decoded(YNull)
    ELSE IF \E d \in YamlDocuments : d.text = t
    THEN Decoded((CHOOSE d \in YamlDocuments : d.text = t).data)
    ELSE IF t[1] = Backtick \/ \E i \in 1..Len(t) : t[i] \in {":", "{", "}"}
    THEN DecoderThrew
    ELSE Decoded(YStr(FoldScalar(t)))

\* A block mapping that ends in a literal block scalar with the keep indicator:
\*   items:
\*    a:
\*     command: |+
\*      x
YamlKeep ==
    <<"i","t","e","m","s",":","\n"," ","a",":","\n"," "," ","c","o","m","m","a","n","d",":",
      " ","|","+","\n"," "," "," ","x">>

HasPrefix(s, prefix) == Len(s) >= Len(prefix) /\ SubSeq(s, 1, Len(prefix)) = prefix

\* YamlKeep followed by line breaks only
IsKeepText(t) ==
    /\ HasPrefix(t, YamlKeep)
    /\ \A i \in (Len(YamlKeep) + 1)..Len(t) : t[i] = "\n"

\* The keep indicator makes the line breaks that end the text part of the scalar
KeepOf(t) ==
    Decoded(Obj1(ITEMS, Obj1(<<"a">>,
        Obj1(COMMAND, YStr(<<"x">> \o SubSeq(t, Len(YamlKeep) + 1, Len(t)))))))

\* parseYaml: white space around a document is not part of it, except the
\* line breaks after a scalar with the keep indicator
parseYaml(text) ==
    CHOOSE y \in {IF IsKeepText(t) THEN KeepOf(t) ELSE YamlOf(Trim(t)) : t \in {TrimStart(text)}} :
        TRUE

\* keymapFromYAML
\* assert(item instanceof KeymapGroup) on what keymapItemFromYAML returned
AssertGroup(r) ==
    IF r.ok /\ ~IsGroup(r.h, r.item) THEN Threw(r.h, AssertionError("")) ELSE r

\* Mutant: keymapFromYAML without its two tests of the root
KeymapFromYAMLUnchecked(h, data, extend) ==
    CHOOSE item \in {AssertGroup(r) : r \in {keymapItemFromYAML(h, data, <<>>, extend)}} : TRUE

keymapFromYAML(h, data, extend) ==
    IF ~isYAMLObject(data)
    THEN parseError(h, "Root element not an object", <<>>, data, <<>>)
    ELSE IF ~HasProp(data, ITEMS)
    THEN parseError(h, "Expected \"items\" property", <<>>, data, <<>>)
    ELSE CHOOSE item \in {AssertGroup(r) : r \in {keymapItemFromYAML(h, data, <<>>, extend)}} :
             TRUE

\* parseKeymapYAML from the point where the decoder has returned or thrown
ParseKeymapYAMLDecoded(h, y, extend) ==
    IF ~y.ok THEN Threw(h, KeymapParseErrorCause(y.error))
    ELSE keymapFromYAML(h, y.data, extend)

\* parseKeymapYAML
parseKeymapYAML(h, text, extend) ==
    CHOOSE r \in {ParseKeymapYAMLDecoded(h, y, extend) : y \in {parseYaml(text)}} : TRUE

\* Whether ^ of a multi-line regular expression matches before the i-th character
LineStart(s, i) == i = 1 \/ s[i - 1] \in LineTerminators

\* Whether /^```/m matches at the i-th character
FenceAt(s, i) ==
    /\ LineStart(s, i)
    /\ i + 2 <= Len(s)
    /\ \A j \in i..(i + 2) : s[j] = Backtick

\* Where .*$ stops when it starts at the i-th character: the position of the
\* next line terminator, or one past the end of the text
LineEnd(s, i) ==
    CHOOSE j \in i..(Len(s) + 1) :
        /\ j = Len(s) + 1 \/ s[j] \in LineTerminators
        /\ \A k \in i..(j - 1) : s[k] \notin LineTerminators

\* lines.matchAll(/^```.*$/mg) from the i-th character on: index and length
\* of each match, in order
RECURSIVE MatchAllFences(_, _)
MatchAllFences(s, i) ==
    IF ~\E j \in i..Len(s) : FenceAt(s, j) THEN <<>>
    ELSE LET m == CHOOSE j \in i..Len(s) :
                      FenceAt(s, j) /\ \A k \in i..(j - 1) : ~FenceAt(s, k)
             e == LineEnd(s, m)
         IN  <<[index |-> m - 1, length |-> e - m]>> \o MatchAllFences(s, e)

BlockNull == [kind |-> "null", text |-> <<>>]
BlockString(s) == [kind |-> "string", text |-> s]
BlockThrow == [kind |-> "throw", text |-> <<>>]

\* The loop of findCodeBlock over the matches, from the k-th on; begin is -1
\* while it is null
RECURSIVE FindCodeBlockLoop(_, _, _, _)
FindCodeBlockLoop(s, matches, k, begin) ==
    IF k > Len(matches) THEN BlockNull
    ELSE IF matches[k].index = 0 THEN BlockThrow
    ELSE IF begin = -1
    THEN FindCodeBlockLoop(s, matches, k + 1, matches[k].index + matches[k].length)
    ELSE BlockString(Substring(s, begin, matches[k].index))

\* findCodeBlock
findCodeBlock(s) == FindCodeBlockLoop(s, MatchAllFences(s, 1), 1, -1)

\* parseKeymapMD
parseKeymapMD(h, text, extend) ==
    LET FromBlock(yaml) ==
            IF yaml.kind = "throw" THEN Threw(h, AssertionError(""))
            ELSE IF yaml.kind = "null" \/ yaml.text = <<>>
            THEN Threw(h, KeymapParseErrorNoPath("No code block found"))
            ELSE parseKeymapYAML(h, yaml.text, extend)
    IN  CHOOSE r \in {FromBlock(yaml) : yaml \in {findCodeBlock(text)}} : TRUE

-----------------------------------------------------------------------------
(* The YAML machine: parseKeymapYAML is called on a keymap file, alone or   *)
(* with the keymap parsed from the builtin file as extend, as loadKeymap    *)
(* does. The YAML decoder belongs to the Obsidian API: for the text of a    *)
(* file it throws, or returns some YAML value.                              *)

\* What the decoder may make of the builtin keymap file
BuiltinOutcomes == {DecoderThrew} \cup {Decoded(d) : d \in BaseDocs}

\* What the decoder may make of the user's keymap file
DecoderOutcomes ==
    {DecoderThrew}
        \cup {Decoded(d) : d \in LeafNodes \cup BaseDocs \cup RemovalDocs \cup ClearDocs}

YamlInit ==
    /\ KeyIdle
    /\ FileIdle
    /\ heap = <<>>
    /\ phase = "yaml"
    /\ base = [id |-> 0]
    /\ last = [op |-> "none"]

\* The record of a call of parseKeymapYAML
YamlCall(y, extend, before, r) ==
    [op |-> "parseKeymapYAML", decoded |-> y, extend |-> extend, before |-> before,
     ok |-> r.ok, item |-> r.item, err |-> r.err]

\* parseKeymapYAML on the builtin keymap file; null when it does not parse
ParseBuiltinYAML(y) ==
    /\ phase = "yaml"
    /\ \E r \in {ParseKeymapYAMLDecoded(heap, y, Null)} :
           /\ heap' = r.h
           /\ base' = [id |-> r.item]
           /\ last' = YamlCall(y, Null, heap, r)
    /\ phase' = "yamlBuiltin"
    /\ UNCHANGED <<keyVars, fileVars>>

\* parseKeymapYAML on the user's keymap file, extending the builtin keymap
\* when there is one
ParseUserYAML(y) ==
    /\ phase \in {"yaml", "yamlBuiltin"}
    /\ \E r \in {ParseKeymapYAMLDecoded(heap, y, base.id)} :
           /\ heap' = r.h
           /\ last' = YamlCall(y, base.id, heap, r)
    /\ phase' = "yamlDone"
    /\ UNCHANGED <<base, keyVars, fileVars>>

YamlNext ==
    \/ phase = "yaml" /\ \E y \in BuiltinOutcomes : ParseBuiltinYAML(y)
    \/ phase # "yamlDone" /\ \E y \in DecoderOutcomes : ParseUserYAML(y)

SpecYaml == YamlInit /\ [][YamlNext]_vars

(* C20: parseKeymapYAML either returns a Group or throws a                  *)
(* KeymapParseError: a failure of the YAML decoder is rethrown as a         *)
(* KeymapParseError carrying the decoder's error as cause; a parsed root    *)
(* that is not an object, or an object without an items key, is rejected;   *)
(* no Command or File is ever returned as the root.                         *)
C20_GroupOrParseError ==
    last.op = "parseKeymapYAML" =>
        /\ last.ok => /\ last.item # Null
                      /\ heap[last.item].type = "group"
        /\ ~last.ok => /\ last.item = Null
                       /\ last.err.kind = "KeymapParseError"
        /\ ~last.decoded.ok =>
              /\ ~last.ok
              /\ last.err.kind = "KeymapParseError"
              /\ last.err.cause = last.decoded.error
              /\ last.err.cause # NoCause
        /\ (last.decoded.ok /\ last.decoded.data.t # "obj") =>
              /\ ~last.ok
              /\ last.err.msg = "Root element not an object"
        /\ (last.decoded.ok /\ last.decoded.data.t = "obj"
               /\ ~HasProp(last.decoded.data, ITEMS)) =>
              /\ ~last.ok
              /\ last.err.msg = "Expected \"items\" property"

\* A root that holds a valid command, and would parse to a Command, was
\* rejected while a builtin keymap was there to extend
C20_Witness ==
    /\ last.op = "parseKeymapYAML"
    /\ last.extend # Null
    /\ last.decoded.ok
    /\ last.decoded.data.t = "obj"
    /\ HasProp(last.decoded.data, COMMAND)
    /\ keymapItemFromYAML(<<>>, last.decoded.data, <<>>, Null).ok
    /\ ~last.ok
    /\ last.err.kind = "KeymapParseError"

-----------------------------------------------------------------------------
(* The Markdown machine: a text is typed and parseKeymapMD is called on it *)

\* Longest Markdown text typed
MaxTextLen == 8

TextAlphabet == {Backtick, "\n", "x"}

MDInit ==
    /\ KeyIdle
    /\ lines = <<>>
    /\ plugin = [state |-> "none"]
    /\ heap = <<>>
    /\ phase = "md"
    /\ base = [id |-> 0]
    /\ last = [op |-> "none"]

\* One more character of the file
TypeText(c) ==
    /\ phase = "md"
    /\ Len(lines) < MaxTextLen
    /\ lines' = Append(lines, c)
    /\ UNCHANGED <<plugin, keyVars, treeVars>>

\* parseKeymapMD(lines)
ParseMD ==
    /\ phase = "md"
    /\ LET r == parseKeymapMD(heap, lines, Null)
       IN  /\ heap' = r.h
           /\ last' = [op |-> "parseKeymapMD", data |-> lines, extend |-> Null,
                       before |-> heap, block |-> findCodeBlock(lines),
                       ok |-> r.ok, item |-> r.item, err |-> r.err]
    /\ phase' = "mdDone"
    /\ UNCHANGED <<base, keyVars, fileVars>>

MDNext ==
    \/ \E c \in TextAlphabet : TypeText(c)
    \/ ParseMD

SpecMD == MDInit /\ [][MDNext]_vars

\* The positions (1-based) where a line of s starts with three backticks
C8_FenceLines(s) ==
    {i \in 1..Len(s) :
        /\ i = 1 \/ s[i - 1] \in LineTerminators
        /\ i + 2 <= Len(s)
        /\ s[i] = Backtick /\ s[i + 1] = Backtick /\ s[i + 2] = Backtick}

C8_Min(S) == CHOOSE i \in S : \A j \in S : i <= j

\* The position just after the line that starts at i
C8_EndOfLine(s, i) ==
    C8_Min({j \in i..(Len(s) + 1) : j = Len(s) + 1 \/ s[j] \in LineTerminators})

\* The text between the end of the first fence line and the start of the second
C8_Between(s) ==
    LET first == C8_Min(C8_FenceLines(s))
        second == C8_Min(C8_FenceLines(s) \ {first})
    IN  SubSeq(s, C8_EndOfLine(s, first), second - 1)

\* C8: a text with at least two fence lines yields exactly the substring
\* between the end of the first fence line and the start of the second,
\* wherever the first fence line is; a text with fewer than two fence lines
\* yields 'not found' and parseKeymapMD fails with 'No code block found'.
C8_MarkdownExtraction ==
    last.op = "parseKeymapMD" =>
        IF Cardinality(C8_FenceLines(last.data)) >= 2
        THEN last.block = BlockString(C8_Between(last.data))
        ELSE /\ last.block = BlockNull
             /\ ~last.ok
             /\ last.err = KeymapParseErrorNoPath("No code block found")

-----------------------------------------------------------------------------
(* The plugin: settings, the vault file, and loading the keymap from it *)

\* Most calls of tryLoadKeymap waiting for their file read at one time
MaxLoads == 1

\* KEYMAP_MARKDOWN_HEADER, a line of prose
KEYMAP_MARKDOWN_HEADER == <<"x", "\n">>

\* makeKeymapMarkdown
makeKeymapMarkdown(yaml) ==
    KEYMAP_MARKDOWN_HEADER
        \o <<Backtick, Backtick, Backtick, "y", "a", "m", "l", "\n">>
        \o yaml
        \o <<"\n", Backtick, Backtick, Backtick, "\n">>

\* String.prototype.endsWith, as the regular expressions /\.md$/ and /\.ya?ml$/ use it
EndsWith(s, suffix) ==
    /\ Len(s) >= Len(suffix)
    /\ SubSeq(s, Len(s) - Len(suffix) + 1, Len(s)) = suffix

\* guessKeymapFileFormat
guessKeymapFileFormat(filename, settingsFormat) ==
    IF settingsFormat # "auto" THEN settingsFormat
    ELSE IF EndsWith(filename, <<".","y","m","l">>) \/ EndsWith(filename, <<".","y","a","m","l">>)
    THEN "yaml"
    ELSE IF EndsWith(filename, <<".","m","d">>) THEN "markdown"
    ELSE "null"

\* new UserError(msg, {details})
UserError(msg, details) == [kind |-> "UserError", msg |-> msg, details |-> details]

\* Mutant: the active keymap stands in for the builtin keymap once there is one
GetActiveKeymap(h) ==
    IF h = <<>>
    THEN CHOOSE k \in {[h |-> r.h, keymap |-> IF r.ok THEN r.item ELSE Null] :
                          r \in {parseKeymapYAML(h, YamlDefault, Null)}} : TRUE
    ELSE [h |-> h, keymap |-> plugin.keymap]

\* getBuiltinKeymap('default'): the heap afterwards and the keymap, Null when
\* the builtin text does not parse
getBuiltinKeymap(h) ==
    CHOOSE k \in {[h |-> r.h, keymap |-> IF r.ok THEN r.item ELSE Null] :
                     r \in {parseKeymapYAML(h, YamlDefault, Null)}} : TRUE

\* loadKeymap up to the file read: the error thrown, or the format to parse with
LoadKeymapBeforeRead(settings, exists) ==
    LET format == guessKeymapFileFormat(settings.path, settings.format)
    IN  IF settings.path = <<>>
        THEN [error |-> UserError("Keymap file not set in plugin settings", "null")]
        ELSE IF ~exists THEN [error |-> UserError("File not found", "null")]
        ELSE IF format = "null"
        THEN [error |-> UserError("Could not guess format of file from extension", "null")]
        ELSE [error |-> NoError, format |-> format]

\* The try block of loadKeymap that parses the file contents
ParseContents(h, format, contents, extend) ==
    LET Onto(parent) ==
            IF format = "markdown"
            THEN parseKeymapMD(parent.h, contents, parent.keymap)
            ELSE parseKeymapYAML(parent.h, contents, parent.keymap)
    IN  CHOOSE r \in {Onto(parent) :
                         parent \in {IF extend THEN getBuiltinKeymap(h)
                                      ELSE [h |-> h, keymap |-> Null]}} : TRUE

\* Mutant: a load that installs what the parser had built when it failed
AssignKeymapBestEffort(h, keymap, r) ==
    IF r.ok THEN r.item
    ELSE IF Len(r.h) > Len(h) THEN Len(h) + 1
    ELSE keymap

\* this.keymap after the try block of loadKeymap: assigned only when the
\* parser returned
AssignKeymap(h, keymap, r) == IF r.ok THEN r.item ELSE keymap

\* What is left of the heap when only the objects of the tree at root are
\* kept, in their order, and the place of root in it
Rank(R, id) == Cardinality({x \in R : x <= id})

Relabel(obj, R) ==
    IF obj.type # "group" THEN obj
    ELSE [obj EXCEPT !.children =
              [i \in 1..Len(obj.children) |->
                  [key |-> obj.children[i].key, item |-> Rank(R, obj.children[i].item)]]]

Collect(h, root) ==
    LET R == Reach(h, root)
    IN  [h |-> [i \in 1..Cardinality(R) |-> Relabel(h[CHOOSE x \in R : Rank(R, x) = i], R)],
         id |-> Rank(R, root)]

-----------------------------------------------------------------------------
(* The wrapping machine: a YAML keymap text is parsed, wrapped in Markdown  *)
(* by makeKeymapMarkdown as the settings tab does for a new file, and the   *)
(* Markdown text is parsed by parseKeymapMD, as in the test 'Parse full     *)
(* keymap'.                                                                 *)

\* Most line breaks before and after a document
MaxPad == 1

LineBreaks(n) == [i \in 1..n |-> "\n"]

\* A plain scalar, and texts that hold fence lines
YamlScalar == <<"x">>
YamlFenced == <<"x", "\n", Backtick, Backtick, Backtick>>
YamlFencedFirst == <<Backtick, Backtick, Backtick, "\n", "x">>

\* The block mapping as a file has it, its last line ended by a line break
YamlKeepFile == YamlKeep \o <<"\n">>

WrapDocuments ==
    { YamlUser, YamlPartial, YamlNoItems, YamlBroken, YamlDefault, YamlKeepFile, YamlScalar,
      YamlFenced, YamlFencedFirst, <<>> }

YamlTexts ==
    {LineBreaks(l) \o d \o LineBreaks(r) : l \in 0..MaxPad, r \in 0..MaxPad, d \in WrapDocuments}

NoOutcome == [ok |-> FALSE, tree |-> [type |-> "null"], err |-> NoError]

\* What a parse call came to: the tree it returned or the error it threw
Outcome(r) == [ok |-> r.ok, tree |-> Tree(r.h, r.item), err |-> r.err]

WrapInit ==
    /\ KeyIdle
    /\ lines = <<>>
    /\ plugin = [state |-> "none"]
    /\ heap = <<>>
    /\ phase = "wrap"
    /\ base = [id |-> 0]
    /\ last = [op |-> "none"]

\* The YAML text of a keymap
ChooseYaml(y) ==
    /\ phase = "wrap"
    /\ phase' = "wrapText"
    /\ lines' = y
    /\ last' = [op |-> "yaml", yaml |-> y, first |-> NoOutcome, second |-> NoOutcome]
    /\ UNCHANGED <<heap, base, plugin, keyVars>>

\* keymap1 = parseKeymapYAML(keymap_yaml)
ParseYamlText ==
    /\ phase = "wrapText"
    /\ phase' = "wrapParsed"
    /\ LET r == parseKeymapYAML(heap, lines, Null)
       IN  /\ heap' = r.h
           /\ last' = [last EXCEPT !.op = "parseKeymapYAML", !.first = Outcome(r)]
    /\ UNCHANGED <<lines, base, plugin, keyVars>>

\* keymap_md = makeKeymapMarkdown(keymap_yaml)
MakeMarkdown ==
    /\ phase = "wrapParsed"
    /\ phase' = "wrapMade"
    /\ lines' = makeKeymapMarkdown(lines)
    /\ last' = [last EXCEPT !.op = "makeKeymapMarkdown"]
    /\ UNCHANGED <<heap, base, plugin, keyVars>>

\* keymap2 = parseKeymapMD(keymap_md)
ParseMarkdownText ==
    /\ phase = "wrapMade"
    /\ phase' = "wrapDone"
    /\ LET r == parseKeymapMD(heap, lines, Null)
       IN  /\ heap' = r.h
           /\ last' = [last EXCEPT !.op = "parseKeymapMD", !.second = Outcome(r)]
    /\ UNCHANGED <<lines, base, plugin, keyVars>>

WrapNext ==
    \/ phase = "wrap" /\ \E y \in YamlTexts : ChooseYaml(y)
    \/ ParseYamlText
    \/ MakeMarkdown
    \/ ParseMarkdownText

SpecWrap == WrapInit /\ [][WrapNext]_vars

(* C22: for every YAML keymap text y that parses successfully and holds no  *)
(* fence line, parseKeymapMD(makeKeymapMarkdown(y)) returns a tree equal to *)
(* the one parseKeymapYAML(y) returns: the same variants, descriptions,     *)
(* keys and child order at every level.                                     *)
C22_WrapRoundTrip ==
    (phase = "wrapDone" /\ last.first.ok /\ C8_FenceLines(last.yaml) = {}) =>
        /\ last.second.ok
        /\ last.second.tree = last.first.tree

-----------------------------------------------------------------------------
(* The plugin machine: the user edits the settings and the file, and keymap *)
(* loads start, wait for the vault to read the file, and finish            *)

NoPath == <<>>

\* The vault holds k.md, k.yml and k; there is no file gone.md
VaultFiles == {<<"k",".","m","d">>, <<"k",".","y","m","l">>, <<"k">>}

Paths == {NoPath, <<"g","o","n","e",".","m","d">>} \cup VaultFiles

Formats == {"auto", "markdown"}

\* A Markdown file whose first line is the opening fence
MdFenceFirst ==
    <<Backtick, Backtick, Backtick, "\n">> \o YamlUser \o <<"\n", Backtick, Backtick, Backtick>>

\* What the vault may hold in the keymap file
FileTexts ==
    { YamlUser, YamlPartial, YamlBroken, YamlOverride, makeKeymapMarkdown(YamlUser),
      MdFenceFirst }

\* cachedRead rejected
ReadError == <<"E">>

\* The record of a finished call of tryLoadKeymap
LoadCall(loaded, error, source, format, extend, contents, built) ==
    [op |-> "tryLoadKeymap", loaded |-> loaded, error |-> error,
     keymapBefore |-> plugin.keymap, treeBefore |-> Tree(heap, plugin.keymap),
     source |-> source, format |-> format, extend |-> extend,
     contents |-> contents, built |-> built]

\* The plugin after onload: the builtin default keymap, the default settings
LoadInit ==
    /\ KeyIdle
    /\ lines = <<>>
    /\ \E k \in {getBuiltinKeymap(<<>>)} :
           /\ heap = k.h
           /\ plugin = [state |-> "loaded",
                        settings |-> [path |-> NoPath, format |-> "auto", extend |-> FALSE],
                        keymap |-> k.keymap,
                        calls |-> <<>>]
    /\ phase = "plugin"
    /\ base = [id |-> 0]
    /\ last = [op |-> "none"]

\* Settings tab: Path
SetPath(path) ==
    /\ phase = "plugin"
    /\ plugin' = [plugin EXCEPT !.settings.path = path]
    /\ UNCHANGED <<lines, keyVars, treeVars>>

\* Settings tab: Format
SetFormat(format) ==
    /\ phase = "plugin"
    /\ plugin' = [plugin EXCEPT !.settings.format = format]
    /\ UNCHANGED <<lines, keyVars, treeVars>>

\* Settings tab: Extend default
SetExtend(extend) ==
    /\ phase = "plugin"
    /\ plugin' = [plugin EXCEPT !.settings.extend = extend]
    /\ UNCHANGED <<lines, keyVars, treeVars>>

\* tryLoadKeymap({allowDefault}) up to its first wait: it installs the default
\* keymap and returns, or fails in loadKeymap before the read, or waits for
\* the vault to read the file
TryLoadKeymap(allowDefault) ==
    /\ phase = "plugin"
    /\ Len(plugin.calls) < MaxLoads
    /\ IF plugin.settings.path = NoPath /\ allowDefault
       THEN \E k \in {getBuiltinKeymap(heap)} :
            \E c \in {Collect(k.h, k.keymap)} :
                /\ k.keymap # Null
                /\ heap' = c.h
                /\ plugin' = [plugin EXCEPT !.keymap = c.id]
                /\ last' = LoadCall(FALSE, NoError, "default", "null", FALSE, <<>>,
                                    Len(k.h) - Len(heap))
       ELSE \E b \in {LoadKeymapBeforeRead(plugin.settings,
                                            plugin.settings.path \in VaultFiles)} :
                IF b.error # NoError
                THEN /\ last' = LoadCall(FALSE, b.error, "none", "null", FALSE, <<>>, 0)
                     /\ UNCHANGED <<heap, plugin>>
                ELSE /\ plugin' = [plugin EXCEPT !.calls = Append(@, [format |-> b.format])]
                     /\ UNCHANGED <<heap, last>>
    /\ UNCHANGED <<lines, phase, base, keyVars>>

\* The read of the i-th waiting call settles, and loadKeymap and tryLoadKeymap
\* run to their end: the contents are parsed and, if the parser returns, the
\* result becomes the active keymap
CachedReadSettles(i, outcome) ==
    /\ phase = "plugin"
    /\ i \in 1..Len(plugin.calls)
    /\ LET call == plugin.calls[i]
           calls == RemoveAt(plugin.calls, i)
           extend == plugin.settings.extend
       IN  IF outcome = ReadError
           THEN /\ last' = LoadCall(FALSE, UserError("Unable to read file", "null"), "none",
                                    call.format, FALSE, outcome, 0)
                /\ plugin' = [plugin EXCEPT !.calls = calls]
                /\ UNCHANGED heap
           ELSE \E r \in {ParseContents(heap, call.format, outcome, extend)} :
                \E c \in {Collect(r.h, AssignKeymap(heap, plugin.keymap, r))} :
                LET error == IF r.ok THEN NoError
                             ELSE UserError("Parse error",
                                            IF r.err.kind = "KeymapParseError"
                                            THEN r.err.msg ELSE "null")
                IN  /\ heap' = c.h
                    /\ plugin' = [plugin EXCEPT !.calls = calls, !.keymap = c.id]
                    /\ last' = LoadCall(r.ok, error, "file", call.format, extend, outcome,
                                        Len(r.h) - Len(heap))
    /\ UNCHANGED <<lines, phase, base, keyVars>>

LoadNext ==
    \/ \E path \in Paths : SetPath(path)
    \/ \E format \in Formats : SetFormat(format)
    \/ \E extend \in BOOLEAN : SetExtend(extend)
    \/ \E allowDefault \in BOOLEAN : TryLoadKeymap(allowDefault)
    \/ \E i \in 1..MaxLoads, outcome \in FileTexts \cup {ReadError} : CachedReadSettles(i, outcome)

SpecLoad == LoadInit /\ [][LoadNext]_vars

-----------------------------------------------------------------------------
(* Claims about loading *)

\* A call of tryLoadKeymap that failed left the active keymap as it was
C9_FailureKeepsKeymap ==
    (last.op = "tryLoadKeymap" /\ last.error # NoError) =>
        /\ plugin.keymap = last.keymapBefore
        /\ Tree(heap, plugin.keymap) = last.treeBefore

\* The tree the parser returns for the contents a load read, parsed on their own
C9_CompleteResult(call) ==
    LET r == ParseContents(<<>>, call.format, call.contents, call.extend)
    IN  IF r.ok THEN Tree(r.h, r.item) ELSE [type |-> "null"]

\* A step that changes the active tree is the end of a load that succeeded,
\* and the new tree is what the parser returned for the whole file (or the
\* builtin default keymap, when the default was asked for)
C9_OnlyCompleteResults ==
    Tree(heap', plugin'.keymap) # Tree(heap, plugin.keymap) =>
        /\ last'.op = "tryLoadKeymap"
        /\ last'.error = NoError
        /\ last'.source = "file" =>
              /\ last'.loaded
              /\ Tree(heap', plugin'.keymap) = C9_CompleteResult(last')
        /\ last'.source = "default" =>
              LET k == getBuiltinKeymap(<<>>)
              IN  Tree(heap', plugin'.keymap) = Tree(k.h, k.keymap)

\* C9: a failed keymap load never installs a partial or different tree: when
\* loadKeymap fails at any step the active keymap is the same tree as before,
\* and the active keymap is replaced only by the complete result of a
\* successful parse.
C9_FailedLoadInstallsNothing ==
    [](C9_FailureKeepsKeymap) /\ [][C9_OnlyCompleteResults]_vars

\* A load that extends the default failed with a parse error after the parser
\* had built objects for earlier entries, while a keymap loaded from the file
\* before was active
C9_Witness ==
    /\ last.op = "tryLoadKeymap"
    /\ last.error # NoError
    /\ last.error.msg = "Parse error"
    /\ last.contents = YamlPartial
    /\ last.extend
    /\ last.built > 2
    /\ last.treeBefore = C9_CompleteResult([format |-> "yaml", contents |-> YamlUser,
                                            extend |-> FALSE])

\* The default keymap extended with the contents of the keymap file: the
\* tree of parsing the contents onto the keymap parsed from the builtin file
C30_Extended(format, contents) ==
    LET d == parseKeymapYAML(<<>>, YamlDefault, Null)
        r == IF format = "markdown" THEN parseKeymapMD(d.h, contents, d.item)
             ELSE parseKeymapYAML(d.h, contents, d.item)
    IN  IF r.ok THEN Tree(r.h, r.item) ELSE [type |-> "null"]

(* C30: with 'extend default' enabled every load extends a freshly parsed   *)
(* builtin default keymap and never the active keymap: after a load that    *)
(* succeeded, whatever was loaded before it, the active keymap is the       *)
(* default keymap extended with the contents that load read. So a reload of *)
(* an unchanged file yields an equal keymap, and an entry that is no longer *)
(* in the file is as in the default keymap.                                 *)
C30_ExtendsFreshDefault ==
    (last.op = "tryLoadKeymap" /\ last.loaded /\ last.extend) =>
        Tree(heap, plugin.keymap) = C30_Extended(last.format, last.contents)

\* The file overrode the default's entry for d and was loaded; the entry was
\* deleted from the file, and after the reload d is as in the default keymap
C30_Witness ==
    /\ last.op = "tryLoadKeymap"
    /\ last.loaded
    /\ last.extend
    /\ last.contents = YamlUser
    /\ last.treeBefore = C30_Extended("yaml", YamlOverride)
    /\ last.treeBefore # C30_Extended("yaml", YamlDefault)
    /\ Tree(heap, plugin.keymap) # last.treeBefore
    /\ find(heap, plugin.keymap, <<KeyPress(<<"d">>, NoMods)>>, TRUE) # Null
    /\ heap[find(heap, plugin.keymap, <<KeyPress(<<"d">>, NoMods)>>, TRUE)].command_id = <<"g">>

-----------------------------------------------------------------------------
(* The leader modal: activateLeader opens a HotkeysModal on the plugin's    *)
(* keymap, key presses are collected and resolved, and the timers that run  *)
(* the selected commands fire.                                              *)

\* Most modals opened
MaxOpens == 2

\* The keymap of the modal: a group with a command the app knows and a file,
\* a command the app does not know, and a command
ModalDoc ==
    Obj1(ITEMS,
         Obj3(<<"a">>, Obj1(ITEMS, Obj2(<<"b">>, YStr(<<"f">>), <<"c">>, Obj1(FILE, YStr(<<"n">>)))),
              <<"c">>, YStr(<<"g">>),
              <<"b">>, YStr(<<"f">>)))

\* The ids app.commands.findCommand knows
AppCommands == {<<"f">>}

Backspace == <<"B","a","c","k","s","p","a","c","e">>

ModalEventKeys == {<<"a">>, <<"b">>, <<"c">>, <<"x">>, Backspace}

ModalEvents ==
    [key : ModalEventKeys, ctrlKey : {FALSE}, shiftKey : BOOLEAN, altKey : {FALSE},
     metaKey : {FALSE}]

\* Modal.close() and onClose
CloseModal(m) == [m EXCEPT !.isOpen = FALSE]

\* execCommand(command_id): a known command is run by a timer after
\* execDelay, an unknown one is reported
execCommand(m, command_id) ==
    IF command_id \in AppCommands
    THEN [m EXCEPT !.timers = Append(@, command_id)]
    ELSE [m EXCEPT !.notices = Append(@, "Unknown command")]

\* openFile(file_path)
openFile(m, file_path) == [m EXCEPT !.files = Append(@, file_path)]

\* invalidKeys()
invalidKeys(m) == [m EXCEPT !.notices = Append(@, "Invalid key sequence")]

\* Mutant: an update that leaves the modal open on an unassigned sequence
UpdateKeepsOpen(h, commands, m) ==
    LET item == find(h, commands, m.keySequence, FALSE)
    IN  IF item = Null THEN invalidKeys(m)
        ELSE IF h[item].type = "command" THEN CloseModal(execCommand(m, h[item].command_id))
        ELSE IF h[item].type = "file" THEN CloseModal(openFile(m, h[item].file_path))
        ELSE m

\* HotkeysModal.update()
update(h, commands, m) ==
    LET item == find(h, commands, m.keySequence, FALSE)
    IN  IF item # Null /\ h[item].type = "command"
        THEN CloseModal(execCommand(m, h[item].command_id))
        ELSE IF item # Null /\ h[item].type = "file"
        THEN CloseModal(openFile(m, h[item].file_path))
        ELSE IF item = Null
        THEN CloseModal(invalidKeys(m))
        ELSE m

\* Array.prototype.pop: nothing happens to an empty array
Pop(seq) == IF seq = <<>> THEN seq ELSE SubSeq(seq, 1, Len(seq) - 1)

\* HotkeysModal.handleKey(evt, ctx)
handleKey(h, commands, m, evt) ==
    IF m.backspaceReverts /\ evt.key = Backspace
    THEN IF m.backspaceCloses /\ Len(m.keySequence) = 0
         THEN CloseModal(m)
         ELSE update(h, commands, [m EXCEPT !.keySequence = Pop(@)])
    ELSE update(h, commands, [m EXCEPT !.keySequence = Append(@, fromEvent(evt))])

\* The plugin after onload, with the keymap loaded and no modal yet
ModalInit ==
    /\ KeyIdle
    /\ lines = <<>>
    /\ phase = "modal"
    /\ \E r \in {keymapItemFromYAML(<<>>, ModalDoc, <<>>, Null)} :
           /\ heap = r.h
           /\ base = [id |-> r.item]
    /\ \E reverts, closes \in BOOLEAN :
           plugin = [state |-> "modal", isOpen |-> FALSE, keySequence |-> <<>>,
                     backspaceReverts |-> reverts, backspaceCloses |-> closes,
                     timers |-> <<>>, executed |-> <<>>, files |-> <<>>, notices |-> <<>>,
                     opens |-> 0]
    /\ last = [op |-> "none"]

\* activateLeader(): new HotkeysModal(this).open(); onOpen calls update()
ActivateLeader ==
    /\ phase = "modal"
    /\ ~plugin.isOpen
    /\ plugin.opens < MaxOpens
    /\ plugin' = update(heap, base.id,
                        [plugin EXCEPT !.isOpen = TRUE, !.keySequence = <<>>, !.opens = @ + 1])
    /\ last' = [op |-> "open", before |-> plugin]
    /\ UNCHANGED <<heap, phase, base, lines, keyVars>>

\* A key is pressed while the modal is open
HandleKey(evt) ==
    /\ phase = "modal"
    /\ plugin.isOpen
    /\ plugin' = handleKey(heap, base.id, plugin, evt)
    /\ last' = [op |-> "handleKey", before |-> plugin, evt |-> evt]
    /\ UNCHANGED <<heap, phase, base, lines, keyVars>>

\* The modal is dismissed (Escape, a click outside)
Dismiss ==
    /\ phase = "modal"
    /\ plugin.isOpen
    /\ plugin' = CloseModal(plugin)
    /\ last' = [op |-> "dismiss", before |-> plugin]
    /\ UNCHANGED <<heap, phase, base, lines, keyVars>>

\* The timer set by execCommand fires: app.commands.executeCommand(command)
ExecTimer ==
    /\ phase = "modal"
    /\ plugin.timers # <<>>
    /\ plugin' = [plugin EXCEPT !.timers = Tail(@), !.executed = Append(@, Head(plugin.timers))]
    /\ last' = [op |-> "timer", before |-> plugin]
    /\ UNCHANGED <<heap, phase, base, lines, keyVars>>

ModalNext ==
    \/ ActivateLeader
    \/ plugin.isOpen /\ \E evt \in ModalEvents : HandleKey(evt)
    \/ Dismiss
    \/ ExecTimer

SpecModal == ModalInit /\ [][ModalNext]_vars

\* The key sequence the last key press left: one key more, or one key less
C27_Sequence ==
    IF last.before.backspaceReverts /\ last.evt.key = Backspace
    THEN Pop(last.before.keySequence)
    ELSE Append(last.before.keySequence, fromEvent(last.evt))

\* The last key press resolved its sequence (it was not the backspace that
\* closes the modal on an empty sequence)
C27_Resolved ==
    /\ last.op = "handleKey"
    /\ ~(last.before.backspaceReverts /\ last.evt.key = Backspace
           /\ last.before.backspaceCloses /\ last.before.keySequence = <<>>)

-----------------------------------------------------------------------------
(* The reload machine: the keymap file is set and watched, the file is      *)
(* modified, and reloads are started by the layout becoming ready, by the   *)
(* debounced file watcher and by the command 'Reload keymap'. Each reload   *)
(* waits for the vault to read the file and then installs what it parsed.   *)

\* Most reloads started
MaxReloads == 3

\* The keymap file of the settings
WatchedFile == <<"k",".","y","m","l">>

\* What the keymap file may hold: texts that parse
ReloadTexts == {YamlUser, YamlDefault}

\* The contents of a read that the vault has not served yet
Unread == <<"?">>

\* tryLoadKeymap up to the await of cachedRead: a call waits for its read
StartLoad(p) ==
    LET b == LoadKeymapBeforeRead(p.settings, p.settings.path = WatchedFile)
        id == Len(p.reads) + 1
    IN  IF b.error # NoError THEN p
        ELSE [p EXCEPT !.calls = Append(@, [id |-> id, format |-> b.format, contents |-> Unread]),
                       !.reads = Append(@, Unread)]

\* The plugin after onload and loadSettings, before the layout is ready: the
\* builtin default keymap, and the saved settings with the keymap file set
\* and auto reload on
ReloadInit ==
    /\ KeyIdle
    /\ lines = <<>>
    /\ phase = "reload"
    /\ base = [id |-> 0]
    /\ last = [op |-> "none"]
    /\ \E k \in {getBuiltinKeymap(<<>>)}, text \in ReloadTexts :
           /\ heap = k.h
           /\ plugin = [state |-> "loaded",
                        settings |-> [path |-> WatchedFile, format |-> "auto", extend |-> FALSE,
                                      autoReload |-> TRUE],
                        keymap |-> k.keymap,
                        file |-> text,
                        fileWatcher |-> FALSE,
                        timer |-> FALSE,
                        calls |-> <<>>,
                        reads |-> <<>>]

\* The callback of onLayoutReady: the load at startup, and updateFileWatcher
LayoutReady ==
    /\ plugin.state = "loaded"
    /\ plugin' = [StartLoad(plugin) EXCEPT
                      !.state = "ready",
                      !.fileWatcher = plugin.settings.path # NoPath /\ plugin.settings.autoReload]
    /\ UNCHANGED <<lines, keyVars, treeVars>>

\* The keymap file is modified: the vault's 'modify' event calls the
\* debounced reload, which (re)starts its timer of 500 ms
ModifyFile(text) ==
    /\ plugin.state = "ready"
    /\ text # plugin.file
    /\ plugin' = [plugin EXCEPT !.file = text, !.timer = @ \/ plugin.fileWatcher]
    /\ UNCHANGED <<lines, keyVars, treeVars>>

\* The timer of the debounced reload fires: () => this.tryLoadKeymap()
DebounceFires ==
    /\ plugin.timer
    /\ Len(plugin.reads) < MaxReloads
    /\ plugin' = [StartLoad(plugin) EXCEPT !.timer = FALSE]
    /\ UNCHANGED <<lines, keyVars, treeVars>>

\* The command 'Reload keymap', or the button of the settings tab
ReloadCommand ==
    /\ plugin.state = "ready"
    /\ Len(plugin.reads) < MaxReloads
    /\ plugin' = StartLoad(plugin)
    /\ UNCHANGED <<lines, keyVars, treeVars>>

\* The vault reads the file for the i-th waiting call
VaultReads(i) ==
    /\ i \in 1..Len(plugin.calls)
    /\ plugin.calls[i].contents = Unread
    /\ plugin' = [plugin EXCEPT !.calls[i].contents = plugin.file,
                                !.reads[plugin.calls[i].id] = plugin.file]
    /\ UNCHANGED <<lines, keyVars, treeVars>>

\* The promise of cachedRead of the i-th waiting call is fulfilled, and
\* loadKeymap runs to its end: the contents are parsed and the result becomes
\* the active keymap
ReadSettles(i) ==
    /\ i \in 1..Len(plugin.calls)
    /\ plugin.calls[i].contents # Unread
    /\ LET call == plugin.calls[i]
       IN  \E r \in {ParseContents(heap, call.format, call.contents, plugin.settings.extend)} :
           \E c \in {Collect(r.h, AssignKeymap(heap, plugin.keymap, r))} :
               /\ heap' = c.h
               /\ plugin' = [plugin EXCEPT !.calls = RemoveAt(@, i), !.keymap = c.id]
               /\ last' = [op |-> "tryLoadKeymap", id |-> call.id, loaded |-> r.ok,
                           contents |-> call.contents]
    /\ UNCHANGED <<lines, phase, base, keyVars>>

ReloadNext ==
    \/ LayoutReady
    \/ \E text \in ReloadTexts : ModifyFile(text)
    \/ DebounceFires
    \/ ReloadCommand
    \/ \E i \in 1..MaxReloads : VaultReads(i)
    \/ \E i \in 1..MaxReloads : ReadSettles(i)

SpecReload == ReloadInit /\ [][ReloadNext]_vars

\* Every reload that was started has completed, and none is about to start
C28_AllCompleted ==
    /\ plugin.state = "ready"
    /\ plugin.reads # <<>>
    /\ plugin.calls = <<>>
    /\ ~plugin.timer

\* The tree parsed from the given contents of the keymap file
C28_Parsed(contents) ==
    LET r == ParseContents(<<>>, "yaml", contents, FALSE)
    IN  IF r.ok THEN Tree(r.h, r.item) ELSE [type |-> "null"]

(* C28: only the latest reload wins: under every interleaving of the file   *)
(* reads, once all reloads that were started have completed the active      *)
(* keymap is the tree parsed from the contents read by the reload that was  *)
(* started last.                                                            *)
C28_LatestReloadWins ==
    C28_AllCompleted =>
        Tree(heap, plugin.keymap) = C28_Parsed(plugin.reads[Len(plugin.reads)])

====
